---- MODULE Spec2Model ----
(***************************************************************************)
(* geoglows_ecflow: the forecast suite builder (geoglows_forecast_job.py), *)
(* the ecFlow run of the suite it builds, the job side table written by    *)
(* prep_rapid_forecast.py and read by run_rapid_forecast.py, and the       *)
(* sdeploy path of workflow/comfies/sdeploy.py.                            *)
(***************************************************************************)
EXTENDS Integers, Sequences, FiniteSets, TLC

(***************************************************************************)
(* Bounds and program constants                                            *)
(***************************************************************************)

\* number of VPU directories that may exist under <workspace>/input
MaxVpus == 2

\* ensemble members per VPU of the suites whose distributed run is explored
RunMembers == 1

\* range(1, 53): the ensemble members 1..52 of the rapid run family
NumEnsembles == 52

\* VPU codes: the names of the directories under <workspace>/input
VpuCodes == {ToString(101 + k) : k \in 1..MaxVpus}

\* os.listdir gives every directory once, in arbitrary order
RECURSIVE DistinctSeqs(_, _)
DistinctSeqs(S, n) ==
    IF n = 0 THEN {<<>>}
    ELSE LET shorter == DistinctSeqs(S, n - 1)
         IN  shorter \cup
             {Append(s, x) : s \in {t \in shorter : Len(t) = n - 1}, x \in S}

NoDuplicates(s) == \A a, b \in 1..Len(s) : s[a] = s[b] => a = b

VpuLists == {s \in DistinctSeqs(VpuCodes, MaxVpus) : NoDuplicates(s)}

(***************************************************************************)
(* Configuration (config.yml as read by create)                            *)
(***************************************************************************)

config ==
    [ suite_name             |-> "geoglows_forecast",
      prep_task_name         |-> "prep_task",
      rapid_family_name      |-> "ensemble_family",
      init_flows_family_name |-> "init_flows_family",
      esri_table_family_name |-> "esri_table_family",
      nc_to_zarr_family_name |-> "nc_to_zarr_family",
      aws_family_name        |-> "aws_family",
      day_one_family_name    |-> "day_one_family",
      rapid_task_name        |-> "ens",
      init_flows_task_name   |-> "init_flows",
      esri_table_task_name   |-> "esri_table",
      nc_to_zarr_task_name   |-> "nc_to_zarr",
      day_one_task_name      |-> "day_one",
      aws_task_name          |-> "aws",
      rapid_exec             |-> "/rapid/rapid",
      rapid_exec_dir         |-> "/rapid/exec",
      rapid_subprocess_dir   |-> "/rapid/logs",
      forecast_records_dir   |-> "/records",
      nces_exec              |-> "/bin/nces",
      aws_config             |-> "/aws.yml" ]

(***************************************************************************)
(* ecFlow nodes as the builders use them                                   *)
(***************************************************************************)

\* Task(name) / Family(name): a fresh node without variables or trigger
Task(name) == [name |-> name, variables |-> <<>>, trigger |-> <<>>]

Family(name) ==
    [name |-> name, variables |-> <<>>, trigger |-> <<>>, tasks |-> <<>>]

\* ecflow.Node.add_variable of the ecFlow library: a variable of that name
\* gets the new value, a new name is added at the end
ecflow_add_variable(variables, key, value) ==
    IF \E k \in 1..Len(variables) : variables[k][1] = key
    THEN [k \in 1..Len(variables) |->
             IF variables[k][1] = key THEN <<key, value>> ELSE variables[k]]
    ELSE Append(variables, <<key, value>>)

\* node.add_variable(key, value)
add_variable(node, key, value) ==
    [node EXCEPT !.variables = ecflow_add_variable(@, key, value)]

\* node.add_trigger(expression)
add_trigger(node, expression) ==
    [node EXCEPT !.trigger = Append(@, expression)]

\* family.add_task(task)
add_task(family, task) == [family EXCEPT !.tasks = Append(@, task)]

\* f"{name} == complete"
CompleteExpr(name) == name \o " == complete"

\* Python's list[k] for -len <= k < len (a negative k counts from the end)
PyIndex(list, k) == IF k < 0 THEN list[Len(list) + k + 1] ELSE list[k + 1]

\* os.path.join(os.path.dirname(__file__), "resources", script)
PyScript(script) == "resources/" \o script

(***************************************************************************)
(* The family builders of geoglows_forecast_job.py                         *)
(***************************************************************************)

\* the add_task calls of a builder's loop, in loop order
add_tasks(family, tasks) == [family EXCEPT !.tasks = @ \o tasks]

\* f"{task_name}_{vpu}_{j}"
EnsTaskName(task_name, vpu, j) == task_name \o "_" \o vpu \o "_" \o ToString(j)

\* f"{task_name}_{vpu}"
VpuTaskName(task_name, vpu) == task_name \o "_" \o vpu

\* RapidTask with the link between two VPUs made to the previous VPU's first
\* processed member instead of its last
RapidTaskLinksFirst(task_name, vpu_list, i, j, is_local, members) ==
    LET vpu  == PyIndex(vpu_list, i)
        task == add_variable(Task(EnsTaskName(task_name, vpu, j)),
                             "JOB_ID", "job_" \o vpu \o "_" \o ToString(j))
    IN  IF is_local /\ (i > 0 \/ j # members)
        THEN IF j + 1 > members
             THEN add_trigger(task,
                      CompleteExpr(EnsTaskName(task_name,
                                               PyIndex(vpu_list, i - 1), j)))
             ELSE add_trigger(task,
                      CompleteExpr(EnsTaskName(task_name, vpu, j + 1)))
        ELSE task

\* RapidTask with a JOB_ID that leaves the VPU out
RapidTaskJobPerMember(task_name, vpu_list, i, j, is_local, members) ==
    LET vpu  == PyIndex(vpu_list, i)
        task == add_variable(Task(EnsTaskName(task_name, vpu, j)),
                             "JOB_ID", "job_" \o ToString(j))
    IN  IF is_local /\ (i > 0 \/ j # members)
        THEN LET prev_vpu == IF j + 1 > members
                             THEN PyIndex(vpu_list, i - 1) ELSE vpu
             IN  add_trigger(task,
                     CompleteExpr(EnsTaskName(task_name, prev_vpu,
                                              (j % members) + 1)))
        ELSE task

\* the body of the inner loop of create_rapid_run_family for index i (from 0)
\* and member j; members stands for the literal 52 of the source
RapidTask(task_name, vpu_list, i, j, is_local, members) ==
    LET vpu  == PyIndex(vpu_list, i)
        task == add_variable(Task(EnsTaskName(task_name, vpu, j)),
                             "JOB_ID", "job_" \o vpu \o "_" \o ToString(j))
    IN  IF is_local /\ (i > 0 \/ j # members)
        THEN LET prev_vpu == IF j + 1 > members
                             THEN PyIndex(vpu_list, i - 1) ELSE vpu
             IN  add_trigger(task,
                     CompleteExpr(EnsTaskName(task_name, prev_vpu,
                                              (j % members) + 1)))
        ELSE task

\* for i, vpu in enumerate(vpu_list): for j in reversed(range(1, members + 1))
RapidTasks(task_name, vpu_list, is_local, members) ==
    [k \in 1..(Len(vpu_list) * members) |->
        RapidTask(task_name, vpu_list, (k - 1) \div members,
                  members - ((k - 1) % members), is_local, members)]

\* create_rapid_run_family without its family.add_trigger call
create_rapid_run_family_ungated(family_name, task_name, vpu_list, trigger_task, rapid_exec, rapid_exec_dir, rapid_subprocess_dir, is_local, members) ==
    LET f1 == add_variable(Family(family_name), "PYSCRIPT",
                           PyScript("run_rapid_forecast.py"))
        f2 == add_variable(f1, "RAPID_EXEC", rapid_exec)
        f3 == add_variable(f2, "EXEC_DIR", rapid_exec_dir)
        f4 == add_variable(f3, "SUBPROCESS_DIR", rapid_subprocess_dir)
    IN  add_tasks(f4, RapidTasks(task_name, vpu_list, is_local, members))

create_rapid_run_family(family_name, task_name, vpu_list, trigger_task, rapid_exec, rapid_exec_dir, rapid_subprocess_dir, is_local, members) ==
    LET f0 == add_trigger(Family(family_name), CompleteExpr(trigger_task))
        f1 == add_variable(f0, "PYSCRIPT", PyScript("run_rapid_forecast.py"))
        f2 == add_variable(f1, "RAPID_EXEC", rapid_exec)
        f3 == add_variable(f2, "EXEC_DIR", rapid_exec_dir)
        f4 == add_variable(f3, "SUBPROCESS_DIR", rapid_subprocess_dir)
    IN  add_tasks(f4, RapidTasks(task_name, vpu_list, is_local, members))

\* ChainTrigger starting the chain one task late (i > 1 for i > 0)
ChainTriggerLate(task, task_name, vpu_list, i, is_local) ==
    IF is_local /\ i > 1
    THEN add_trigger(task,
             CompleteExpr(VpuTaskName(task_name, PyIndex(vpu_list, i - 1))))
    ELSE task

\* ChainTrigger chaining whatever the mode
ChainTriggerAlways(task, task_name, vpu_list, i, is_local) ==
    IF i > 0
    THEN add_trigger(task,
             CompleteExpr(VpuTaskName(task_name, PyIndex(vpu_list, i - 1))))
    ELSE task

\* ChainTrigger naming the task itself
ChainTriggerSelf(task, task_name, vpu_list, i, is_local) ==
    IF is_local /\ i > 0
    THEN add_trigger(task,
             CompleteExpr(VpuTaskName(task_name, PyIndex(vpu_list, i))))
    ELSE task

\* the "if is_local: if i > 0: ..." of the per-VPU builders, i from 0
ChainTrigger(task, task_name, vpu_list, i, is_local) ==
    IF is_local /\ i > 0
    THEN add_trigger(task,
             CompleteExpr(VpuTaskName(task_name, PyIndex(vpu_list, i - 1))))
    ELSE task

create_nc_to_zarr_family(family_name, task_name, vpu_list, trigger, is_local) ==
    LET f0 == add_trigger(Family(family_name), CompleteExpr(trigger))
        f1 == add_variable(f0, "PYSCRIPT", PyScript("netcdf_to_zarr.py"))
        tasks == [k \in 1..Len(vpu_list) |->
                    ChainTrigger(
                        add_variable(Task(VpuTaskName(task_name, vpu_list[k])),
                                     "VPU", vpu_list[k]),
                        task_name, vpu_list, k - 1, is_local)]
    IN  add_tasks(f1, tasks)

create_init_flows_family(family_name, task_name, vpu_list, trigger, is_local) ==
    LET f0 == add_trigger(Family(family_name), CompleteExpr(trigger))
        f1 == add_variable(f0, "PYSCRIPT", PyScript("compute_init_flows.py"))
        tasks == [k \in 1..Len(vpu_list) |->
                    ChainTrigger(
                        add_variable(Task(VpuTaskName(task_name, vpu_list[k])),
                                     "VPU", vpu_list[k]),
                        task_name, vpu_list, k - 1, is_local)]
    IN  add_tasks(f1, tasks)

create_esri_table_family(family_name, task_name, vpu_list, nces_exec, trigger, is_local) ==
    LET f0 == add_trigger(Family(family_name), CompleteExpr(trigger))
        f1 == add_variable(f0, "PYSCRIPT", PyScript("generate_esri_table.py"))
        f2 == add_variable(f1, "NCES_EXEC", nces_exec)
        tasks == [k \in 1..Len(vpu_list) |->
                    ChainTrigger(
                        add_variable(Task(VpuTaskName(task_name, vpu_list[k])),
                                     "VPU", vpu_list[k]),
                        task_name, vpu_list, k - 1, is_local)]
    IN  add_tasks(f2, tasks)

create_day_one_family(family_name, task_name, vpu_list, output_dir, trigger, is_local) ==
    LET f0 == add_trigger(Family(family_name), CompleteExpr(trigger))
        f1 == add_variable(f0, "PYSCRIPT", PyScript("day_one_forecast.py"))
        tasks == [k \in 1..Len(vpu_list) |->
                    ChainTrigger(
                        add_variable(
                            add_variable(
                                Task(VpuTaskName(task_name, vpu_list[k])),
                                "VPU", vpu_list[k]),
                            "OUTPUT_DIR", output_dir),
                        task_name, vpu_list, k - 1, is_local)]
    IN  add_tasks(f1, tasks)

\* create_aws_family returning a bare family early when there is no VPU
create_aws_family_early(family_name, task_name, vpu_list, aws_config, trigger, is_local) ==
    IF vpu_list = <<>> THEN Family(family_name)
    ELSE LET f0 == add_trigger(Family(family_name), CompleteExpr(trigger))
             f1 == add_variable(f0, "PYSCRIPT", PyScript("archive_to_aws.py"))
             f2 == add_variable(f1, "AWS_CONFIG", aws_config)
             tasks == [k \in 1..Len(vpu_list) |->
                         ChainTrigger(
                             add_variable(
                                 Task(VpuTaskName(task_name, vpu_list[k])),
                                 "VPU", vpu_list[k]),
                             task_name, vpu_list, k - 1, is_local)]
         IN  add_tasks(f2, tasks)

create_aws_family(family_name, task_name, vpu_list, aws_config, trigger, is_local) ==
    LET f0 == add_trigger(Family(family_name), CompleteExpr(trigger))
        f1 == add_variable(f0, "PYSCRIPT", PyScript("archive_to_aws.py"))
        f2 == add_variable(f1, "AWS_CONFIG", aws_config)
        tasks == [k \in 1..Len(vpu_list) |->
                    ChainTrigger(
                        add_variable(Task(VpuTaskName(task_name, vpu_list[k])),
                                     "VPU", vpu_list[k]),
                        task_name, vpu_list, k - 1, is_local)]
    IN  add_tasks(f2, tasks)

(***************************************************************************)
(* create (geoglows_forecast_job.py) and validate (utils.py)               *)
(***************************************************************************)

VARIABLES
    pc,         \* the statement of create to run next
    vpu_list,   \* get_valid_vpucode_list(<workspace>/input)
    local_run,  \* config.get("local_run")
    members,    \* the ensemble members per VPU (52 in the source)
    defs,       \* the Defs under construction: <<>> or <<suite>>
    check,      \* what defs.check() returned
    raised,     \* the exception create ended with, <<>> if none
    def_file,   \* the definition files written: <<>> or <<output_path>>
    stages,     \* the loaded suite: its families' names and sizes, in order
    refs,       \* the loaded suite: the nodes each node's trigger names
    readers,    \* the loaded suite: the tasks whose script reads the table
    status,     \* the state of every task of the loaded suite
    file,       \* rapid_run.json: "absent", "partial" or "written"
    tpc,            \* side table: "prep" before it is written, then "exec"
    runoff_dates,   \* the dates of the IFS.48r1.Runoff*.netcdf directories
    ensembles,      \* the ensemble numbers of the *.runoff.*nc files
    rapid_run_json, \* the content of rapid_run.json: <<>> or <<dict>>
    exec_out,       \* what rapid_forecast_exec got, per job id it ran with
    dpc,            \* the statement of _sdeploy to run next
    dry_run,        \* sdeploy's dry_run argument
    target_files,   \* sdeploy's target_files argument
    task_section,   \* whether the deploy config has a "task" section
    dcheck,         \* what the builder's defs.check() returned
    derror,         \* the error _sdeploy ended with, <<>> if none
    written,        \* the files written to the target directory
    made_dirs,      \* the directories ensure_dir was called for
    params_values,  \* sdeploy's params_values argument, a dict
    dconfig,        \* the deploy config's data, <<>> before it is read
    bpc,            \* two builds side by side: the step both take next
    input_dir,      \* the entries of <workspace>/input
    listing,        \* what os.listdir returned to each of the two builds
    built,          \* the definitions of the two builds so far
    self_node,      \* path_relto: the node whose path is asked for
    other_node,     \* path_relto: the node the path is relative to
    relto,          \* what path_relto returned: <<>> before the call
    cpc,            \* add_definition: the statement to run next
    server_defs,    \* whether the server holds a definition
    definition,     \* add_definition's definition argument
    got_defs,       \* what ci.get_defs() returned: "unset", "None" or "Defs"
    calls,          \* the calls made on the Client, each with its outcome
    children,       \* the children of a suite or family, in the order added
    last_add,       \* the last add_task / add_family call and what it raised
    patched,        \* whether ooflow is imported and has patched ecflow.Node
    ecflow_variables,\* the variables ecFlow holds for the node
    oo_variables,   \* the node's __variables dict kept by ooflow
    given,          \* the value most recently given for each key, "" if none
    ncalls,         \* the number of calls made on the node
    expr,           \* the ooflow expression built so far
    applied,        \* the last operator application: op, left, right, result
    rendered,       \* the ExprRenderer after expr.text was read: node, text, rank
    nops,           \* operator applications so far; -1 when no expression is built
    fn,             \* the client.py function that was called
    fpc,            \* the statement it has reached
    ccalls,         \* the ecFlow client calls attempted so far, with their outcome
    printed,        \* the lines printed so far
    escaped,        \* an exception left the function
    fs,             \* the workspace: path -> directory, regular file or symbolic link
    rapid_name,     \* the configured name of the rapid task
    boot_vpus,      \* the VPU list create found
    bpos,           \* the statement of create that runs next
    boot_error,     \* the exception that ended create
    boot_runs,      \* runs of create started so far
    template,       \* the text _process is given, a sequence of characters
    it,             \* the position of the token iterator in the text; 0 when not in use
    pstate,         \* _process's state: verbatim, eval, exec or include
    output,         \* the output built so far
    expression_buf, \* the text of the eval block being read
    statements,     \* the text of the exec block being read
    include,        \* the text of the include directive being read
    perror,         \* the class of the exception _process ended with, <<>> if none
    returned,       \* what _process returned: <<>> or <<output>>
    srclines,       \* the lines of the script search reads, by what each includes
    expected,       \* search's expected argument: <<>> for None, else <<names>>
    lpos,           \* the line search reads next; 0 when not in use
    sfound,         \* the set found of the search
    include_path,   \* the local include_path: <<>> while unbound, else <<path>>
    search_error,   \* the exception search ended with, <<>> if none
    search_result,  \* what search returned: <<>> or <<found>>
    caller,         \* who constructs PackageInstallers; "" when not in use
    packages,       \* the packages argument
    n_packages,     \* the 'packages' family: the installer families added so far
    pkg_error,      \* the exception the constructor ended with, <<>> if none
    assembled,      \* whether the caller went on past the constructor
    cycle,          \* the cycle Builder.build is building: EMOS_BASE; "" when not in use
    ooflow_trigger, \* the ooflow trigger expression of each node of the suite
    ooflow_defuser, \* the ooflow defuser expression of each node of the suite
    ecflow_trigger, \* each node's ecFlow trigger text, <<>> when it has none
    ecflow_complete,\* each node's ecFlow complete text, <<>> when it has none
    finished,       \* whether the suite was rendered since the last change
    nadds           \* trigger and defuser assignments so far; -1 when not in use

\* add_variables(entity, vars): add_variable for every item of the dict
RECURSIVE add_variables(_, _)
add_variables(entity, vars) ==
    IF vars = <<>> THEN entity
    ELSE add_variables(add_variable(entity, Head(vars)[1], Head(vars)[2]),
                       Tail(vars))

\* defs.add_suite, the suite variables and prep_task
AddSuiteAndPrepTask(d, is_local) ==
    LET suite0 == [name |-> config.suite_name, variables |-> <<>>,
                   tasks |-> <<>>, families |-> <<>>]
        suite1 == add_variables(suite0,
                      << <<"ECF_INCLUDE", "ecflow_home">>,
                         <<"ECF_FILES", "ecflow_home/" \o config.suite_name>>,
                         <<"ECF_HOME", "ecflow_home">>,
                         <<"ECF_BIN", IF is_local THEN "ecflow_bin" ELSE "">>,
                         <<"WORKSPACE", "workspace">> >>)
        prep   == add_variables(Task(config.prep_task_name),
                      << <<"PYSCRIPT", PyScript("prep_rapid_forecast.py")>> >>)
    IN  Append(d, add_task(suite1, prep))

\* suite.add_family(family)
add_family(d, family) == [d EXCEPT ![1].families = Append(@, family)]

AddRapidRunFamily(d, vpus, is_local, n) ==
    add_family(d, create_rapid_run_family(
        config.rapid_family_name, config.rapid_task_name, vpus,
        config.prep_task_name, config.rapid_exec, config.rapid_exec_dir,
        config.rapid_subprocess_dir, is_local, n))

AddEsriTableFamily(d, vpus, is_local) ==
    add_family(d, create_esri_table_family(
        config.esri_table_family_name, config.esri_table_task_name, vpus,
        config.nces_exec, config.rapid_family_name, is_local))

\* AddNcToZarrFamily gated on the rapid family instead of the esri family
AddNcToZarrFamilySkipping(d, vpus, is_local) ==
    add_family(d, create_nc_to_zarr_family(
        config.nc_to_zarr_family_name, config.nc_to_zarr_task_name, vpus,
        config.rapid_family_name, is_local))

AddNcToZarrFamily(d, vpus, is_local) ==
    add_family(d, create_nc_to_zarr_family(
        config.nc_to_zarr_family_name, config.nc_to_zarr_task_name, vpus,
        config.esri_table_family_name, is_local))

AddInitFlowsFamily(d, vpus, is_local) ==
    add_family(d, create_init_flows_family(
        config.init_flows_family_name, config.init_flows_task_name, vpus,
        config.nc_to_zarr_family_name, is_local))

AddDayOneFamily(d, vpus, is_local) ==
    add_family(d, create_day_one_family(
        config.day_one_family_name, config.day_one_task_name, vpus,
        config.forecast_records_dir, config.init_flows_family_name, is_local))

AddAwsFamily(d, vpus, is_local) ==
    add_family(d, create_aws_family(
        config.aws_family_name, config.aws_task_name, vpus,
        config.aws_config, config.day_one_family_name, is_local))

\* what the external validator defs.check() may return: a list of errors
CheckResults == {<<>>, <<"error 1">>, <<"error 1", "error 2">>}

\* validate with the result of defs.check() left unused
validate_unchecked(errors) == [ok |-> TRUE, exception |-> <<>>]

\* validate(defs), given what defs.check() returned: the assertion passes
\* on an empty list and raises AssertionError(check) otherwise
validate(errors) ==
    IF Len(errors) = 0
    THEN [ok |-> TRUE, exception |-> <<>>]
    ELSE [ok |-> FALSE, exception |-> <<"AssertionError", errors>>]

\* the suite create hands to validate, all its statements run in order
BuiltDefs(vpus, is_local, n) ==
    AddAwsFamily(
      AddDayOneFamily(
        AddInitFlowsFamily(
          AddNcToZarrFamily(
            AddEsriTableFamily(
              AddRapidRunFamily(AddSuiteAndPrepTask(<<>>, is_local),
                                vpus, is_local, n),
              vpus, is_local),
            vpus, is_local),
          vpus, is_local),
        vpus, is_local),
      vpus, is_local)

createVars == <<pc, vpu_list, local_run, members, defs, check, raised, def_file>>

loadVars == <<stages, refs, readers>>

runVars == <<loadVars, status, file>>

tableVars == <<tpc, runoff_dates, ensembles, rapid_run_json, exec_out>>

deployVars ==
    <<dpc, dry_run, target_files, task_section, dcheck, derror, written,
      made_dirs, params_values, dconfig>>

twinVars == <<bpc, input_dir, listing, built>>

pathVars == <<self_node, other_node, relto>>

clientVars == <<cpc, server_defs, definition, got_defs, calls>>

nodeVars == <<children, last_add, patched, ecflow_variables, oo_variables, given, ncalls>>

exprVars == <<expr, applied, rendered, nops>>

callVars == <<fn, fpc, ccalls, printed, escaped>>

bootVars == <<fs, rapid_name, boot_vpus, bpos, boot_error, boot_runs>>

tmplVars == <<template, it, pstate, output, expression_buf, statements, include, perror, returned>>

incVars == <<srclines, expected, lpos, sfound, include_path, search_error, search_result>>

pkgVars == <<caller, packages, n_packages, pkg_error, assembled>>

finVars == <<cycle, ooflow_trigger, ooflow_defuser, ecflow_trigger, ecflow_complete, finished, nadds>>

vars == <<createVars, runVars, tableVars, deployVars, twinVars, pathVars, clientVars, nodeVars, exprVars, callVars, bootVars, tmplVars, incVars, pkgVars, finVars>>

\* what each part of the repository leaves alone
notCreate == <<runVars, tableVars, deployVars, twinVars, pathVars, clientVars, nodeVars, exprVars, callVars, bootVars, tmplVars, incVars, pkgVars, finVars>>

notRun == <<createVars, tableVars, deployVars, twinVars, pathVars, clientVars, nodeVars, exprVars, callVars, bootVars, tmplVars, incVars, pkgVars, finVars>>

notTable == <<createVars, runVars, deployVars, twinVars, pathVars, clientVars, nodeVars, exprVars, callVars, bootVars, tmplVars, incVars, pkgVars, finVars>>

notDeploy == <<createVars, runVars, tableVars, twinVars, pathVars, clientVars, nodeVars, exprVars, callVars, bootVars, tmplVars, incVars, pkgVars, finVars>>

notTwin == <<runVars, tableVars, deployVars, pathVars, clientVars, nodeVars, exprVars, callVars, bootVars, tmplVars, incVars, pkgVars, finVars>>

notPath == <<createVars, runVars, tableVars, deployVars, twinVars, clientVars, nodeVars, exprVars, callVars, bootVars, tmplVars, incVars, pkgVars, finVars>>

notClient == <<createVars, runVars, tableVars, deployVars, twinVars, pathVars, nodeVars, exprVars, callVars, bootVars, tmplVars, incVars, pkgVars, finVars>>

notNode == <<createVars, runVars, tableVars, deployVars, twinVars, pathVars, clientVars, exprVars, callVars, bootVars, tmplVars, incVars, pkgVars, finVars>>

notExpr == <<createVars, runVars, tableVars, deployVars, twinVars, pathVars, clientVars, nodeVars, callVars, bootVars, tmplVars, incVars, pkgVars, finVars>>

notCall == <<createVars, runVars, tableVars, deployVars, twinVars, pathVars, clientVars, nodeVars, exprVars, bootVars, tmplVars, incVars, pkgVars, finVars>>

notBoot == <<createVars, runVars, tableVars, deployVars, twinVars, pathVars, clientVars, nodeVars, exprVars, callVars, tmplVars, incVars, pkgVars, finVars>>

notTmpl == <<createVars, runVars, tableVars, deployVars, twinVars, pathVars, clientVars, nodeVars, exprVars, callVars, bootVars, incVars, pkgVars, finVars>>

notInc == <<createVars, runVars, tableVars, deployVars, twinVars, pathVars, clientVars, nodeVars, exprVars, callVars, bootVars, tmplVars, pkgVars, finVars>>

notPkg == <<createVars, runVars, tableVars, deployVars, twinVars, pathVars, clientVars, nodeVars, exprVars, callVars, bootVars, tmplVars, incVars, finVars>>

notFin == <<createVars, runVars, tableVars, deployVars, twinVars, pathVars, clientVars, nodeVars, exprVars, callVars, bootVars, tmplVars, incVars, pkgVars>>

\* the other parts of the repository, not running
NoTable ==
    /\ tpc = "off" /\ runoff_dates = {} /\ ensembles = {}
    /\ rapid_run_json = <<>> /\ exec_out = {}

NoDeploy ==
    /\ dpc = "off" /\ dry_run = FALSE /\ target_files = {}
    /\ task_section = FALSE /\ dcheck = <<>> /\ derror = <<>>
    /\ written = {}
    /\ made_dirs = {} /\ params_values = <<>> /\ dconfig = <<>>

NoTwin ==
    /\ bpc = -1 /\ input_dir = [dirs |-> {}, files |-> {}] /\ listing = <<>> /\ built = <<>>

\* ooflow node paths, not in use
NoPath ==
    /\ self_node = <<>> /\ other_node = <<>> /\ relto = <<>>

\* the client, not in use
NoClient ==
    /\ cpc = "off" /\ server_defs = FALSE /\ definition = <<>>
    /\ got_defs = "unset" /\ calls = <<>>

\* a node and its container, not in use
NoNode ==
    /\ children = <<>> /\ last_add = <<>> /\ patched = FALSE
    /\ ecflow_variables = <<>> /\ oo_variables = <<>> /\ given = <<>>
    /\ ncalls = -1

\* No ooflow expression is being built.
NoExpr ==
    /\ expr = [kind |-> "NullBool"]
    /\ applied = [op |-> "none"]
    /\ rendered = [done |-> FALSE]
    /\ nops = -1

\* No function of client.py is running.
NoCall ==
    /\ fn = "none"
    /\ fpc = "off"
    /\ ccalls = <<>>
    /\ printed = <<>>
    /\ escaped = FALSE

\* No workspace is being prepared.
NoBoot ==
    /\ fs = <<>>
    /\ rapid_name = ""
    /\ boot_vpus = <<>>
    /\ bpos = "off"
    /\ boot_error = ""
    /\ boot_runs = 0

\* the template processor, not in use
NoTmpl ==
    /\ template = <<>> /\ it = 0 /\ pstate = "off" /\ output = ""
    /\ expression_buf = "" /\ statements = "" /\ include = ""
    /\ perror = <<>> /\ returned = <<>>

\* the include finder, not in use
NoInc ==
    /\ srclines = <<>> /\ expected = <<>> /\ lpos = 0 /\ sfound = {}
    /\ include_path = <<>> /\ search_error = <<>> /\ search_result = <<>>

\* the 'packages' family, not in use
NoPkg ==
    /\ caller = "" /\ packages = <<>> /\ n_packages = <<>>
    /\ pkg_error = <<>> /\ assembled = FALSE

\* no suite is being rendered
NoFin ==
    /\ cycle = "" /\ ooflow_trigger = <<>> /\ ooflow_defuser = <<>>
    /\ ecflow_trigger = <<>> /\ ecflow_complete = <<>>
    /\ finished = FALSE /\ nadds = -1

NoCreate ==
    /\ pc = "off" /\ vpu_list = <<>> /\ local_run = FALSE /\ members = NumEnsembles
    /\ defs = <<>> /\ check = <<>> /\ raised = <<>> /\ def_file = <<>>

\* no suite is loaded while create runs
NoRun ==
    /\ stages = <<>> /\ refs = <<>> /\ readers = {}
    /\ status = <<>> /\ file = "absent"

\* create is entered with the VPU directories and the run mode it finds
Init ==
    /\ pc = "add_suite"
    /\ vpu_list \in VpuLists
    /\ local_run \in BOOLEAN
    /\ members = NumEnsembles
    /\ defs = <<>>
    /\ check = <<>>
    /\ raised = <<>>
    /\ def_file = <<>>
    /\ NoRun
    /\ NoTable
    /\ NoDeploy
    /\ NoTwin
    /\ NoPath
    /\ NoClient
    /\ NoNode
    /\ NoExpr
    /\ NoCall
    /\ NoBoot
    /\ NoTmpl
    /\ NoInc
    /\ NoPkg
    /\ NoFin

Step(from, to, d) ==
    /\ pc = from
    /\ pc' = to
    /\ defs' = d
    /\ UNCHANGED <<vpu_list, local_run, members, check, raised, def_file>>
    /\ UNCHANGED notCreate

CreateSuite == Step("add_suite", "rapid", AddSuiteAndPrepTask(defs, local_run))

CreateRapidRun ==
    Step("rapid", "esri_table",
         AddRapidRunFamily(defs, vpu_list, local_run, members))

CreateEsriTable ==
    Step("esri_table", "nc_to_zarr",
         AddEsriTableFamily(defs, vpu_list, local_run))

CreateNcToZarr ==
    Step("nc_to_zarr", "init_flows",
         AddNcToZarrFamily(defs, vpu_list, local_run))

CreateInitFlows ==
    Step("init_flows", "day_one",
         AddInitFlowsFamily(defs, vpu_list, local_run))

CreateDayOne ==
    Step("day_one", "aws", AddDayOneFamily(defs, vpu_list, local_run))

CreateAws == Step("aws", "validate", AddAwsFamily(defs, vpu_list, local_run))

\* validate(defs): the validator's answer is its own; a raise ends create
Validate ==
    /\ pc = "validate"
    /\ \E errors \in CheckResults :
          /\ check' = errors
          /\ IF validate(errors).ok
             THEN pc' = "save" /\ raised' = raised
             ELSE pc' = "raised" /\ raised' = validate(errors).exception
    /\ UNCHANGED <<vpu_list, local_run, members, defs, def_file>>
    /\ UNCHANGED notCreate

\* defs.save_as_defs(output_path)
SaveAsDefs ==
    /\ pc = "save"
    /\ def_file' = <<config.suite_name \o ".def">>
    /\ pc' = "done"
    /\ UNCHANGED <<vpu_list, local_run, members, defs, check, raised>>
    /\ UNCHANGED notCreate

Next ==
    \/ CreateSuite
    \/ CreateRapidRun
    \/ CreateEsriTable
    \/ CreateNcToZarr
    \/ CreateInitFlows
    \/ CreateDayOne
    \/ CreateAws
    \/ Validate
    \/ SaveAsDefs

Spec == Init /\ [][Next]_vars

(***************************************************************************)
(* Properties of the built suite                                           *)
(***************************************************************************)

\* the families added to the suite so far
Families == IF defs = <<>> THEN <<>> ELSE defs[1].families

\* the keys of a node's variables
VariableKeys(node) == {node.variables[k][1] : k \in 1..Len(node.variables)}

\* the tasks of family f, other than its k-th, that expression e names as
\* "<task> == complete"
NamedBy(f, k, e) ==
    {m \in 1..Len(f.tasks) : m # k /\ e = CompleteExpr(f.tasks[m].name)}

\* C1: in local mode, with a non-empty vpu_list, every task of every family
\* but the family's first created one has exactly one trigger, and that
\* trigger is "<task> == complete" for exactly one other task of the family
C1_LocalChainComplete ==
    (local_run /\ vpu_list # <<>>) =>
        \A n \in 1..Len(Families) :
            LET f == Families[n]
            IN  \A k \in 2..Len(f.tasks) :
                    /\ Len(f.tasks[k].trigger) = 1
                    /\ Cardinality(NamedBy(f, k, f.tasks[k].trigger[1])) = 1

C1_Witness ==
    /\ local_run
    /\ Len(vpu_list) = MaxVpus
    /\ pc = "validate"
    /\ Len(Families) = 6
    /\ \A n \in 1..6 : Len(Families[n].tasks) >= MaxVpus

\* the node each stage waits for, in the order create adds the stages
Predecessors ==
    << config.prep_task_name, config.rapid_family_name,
       config.esri_table_family_name, config.nc_to_zarr_family_name,
       config.init_flows_family_name, config.day_one_family_name >>

\* C2: in distributed mode no task carries a trigger; each family carries
\* exactly the one trigger "<predecessor> == complete"
C2_DistributedNoTaskTrigger ==
    (~local_run) =>
        \A n \in 1..Len(Families) :
            /\ \A k \in 1..Len(Families[n].tasks) :
                   Families[n].tasks[k].trigger = <<>>
            /\ Families[n].trigger = <<CompleteExpr(Predecessors[n])>>

C2_Witness ==
    /\ ~local_run
    /\ Len(vpu_list) = MaxVpus
    /\ pc = "validate"
    /\ \A n \in 1..6 : Len(Families[n].tasks) >= MaxVpus

\* the task of family f with the given name, as a set (empty if none)
TaskNamed(f, name) == {f.tasks[k] : k \in {m \in 1..Len(f.tasks) :
                                              f.tasks[m].name = name}}

\* C3: in the local rapid run family the task of (vpu_list[i], member j)
\* triggers on member j+1 of the same VPU when j < 52 and on member 1 of
\* vpu_list[i-1] when j = 52 and i > 0; for <<"102", "103">> and task name
\* "ens", ens_103_52 waits for ens_102_1 and ens_102_51 for ens_102_52
C3_RapidChainLinks ==
    (local_run /\ Len(Families) >= 1) =>
        LET f == Families[1]
            t == config.rapid_task_name
        IN  /\ \A i \in 1..Len(vpu_list) : \A j \in 1..NumEnsembles :
                 \A task \in TaskNamed(f, EnsTaskName(t, vpu_list[i], j)) :
                    /\ j < NumEnsembles =>
                         task.trigger =
                           <<CompleteExpr(EnsTaskName(t, vpu_list[i], j + 1))>>
                    /\ (j = NumEnsembles /\ i > 1) =>
                         task.trigger =
                           <<CompleteExpr(EnsTaskName(t, vpu_list[i - 1], 1))>>
            /\ \A i \in 1..Len(vpu_list) : \A j \in 1..NumEnsembles :
                 TaskNamed(f, EnsTaskName(t, vpu_list[i], j)) # {}
            /\ vpu_list = <<"102", "103">> =>
                 /\ \A task \in TaskNamed(f, "ens_103_52") :
                        task.trigger = <<"ens_102_1 == complete">>
                 /\ \A task \in TaskNamed(f, "ens_102_51") :
                        task.trigger = <<"ens_102_52 == complete">>
                 /\ TaskNamed(f, "ens_103_52") # {}
                 /\ TaskNamed(f, "ens_102_51") # {}

C3_Witness ==
    /\ local_run
    /\ vpu_list = <<"102", "103">>
    /\ Len(Families) >= 1
    /\ Len(Families[1].tasks) = 2 * NumEnsembles

\* C8: the definition file is saved only when defs.check() returned no
\* error; on a non-empty error list create ends with validate's exception,
\* which carries that list, and nothing is saved
C8_NoSaveAfterFailedCheck ==
    /\ def_file # <<>> => check = <<>>
    /\ check # <<>> =>
          /\ pc = "raised"
          /\ raised = <<"AssertionError", check>>
          /\ def_file = <<>>

C8_Witness == pc = "raised" /\ Len(check) = 2 /\ def_file = <<>>

\* C10: with an empty vpu_list, in either mode, every builder returns a
\* family without tasks that carries its family trigger and its variables,
\* and create reaches validate with all six families
C10_EmptyVpuList ==
    (vpu_list = <<>>) =>
        /\ \A n \in 1..Len(Families) :
              /\ Families[n].tasks = <<>>
              /\ Families[n].trigger = <<CompleteExpr(Predecessors[n])>>
              /\ "PYSCRIPT" \in VariableKeys(Families[n])
        /\ pc \in {"validate", "save", "raised", "done"} => Len(Families) = 6
        /\ raised # <<>> => pc = "raised"

C10_Witness ==
    /\ vpu_list = <<>>
    /\ pc = "validate"
    /\ Len(Families) = 6
    /\ \A n \in 1..6 : Families[n].tasks = <<>>

(***************************************************************************)
(* The run of the saved suite by the ecFlow server, and the jobs' use of   *)
(* rapid_run.json (prep_rapid_forecast.py writes it, the others read it)   *)
(***************************************************************************)

\* nodes of the loaded suite: <<0, k>> the suite's k-th task, <<n, 0>> its
\* n-th family, <<n, k>> the k-th task of that family
SuiteTasks(suite) == {<<0, k>> : k \in 1..Len(suite.tasks)}

FamilyTasks(suite, n) == {<<n, k>> : k \in 1..Len(suite.families[n].tasks)}

AllTasks(suite) ==
    SuiteTasks(suite) \cup
    UNION {FamilyTasks(suite, n) : n \in 1..Len(suite.families)}

NodeAt(suite, p) ==
    IF p[1] = 0 THEN suite.tasks[p[2]]
    ELSE IF p[2] = 0 THEN suite.families[p[1]]
    ELSE suite.families[p[1]].tasks[p[2]]

\* the siblings of node p: the nodes with the same parent
Siblings(suite, p) ==
    IF p[1] = 0 \/ p[2] = 0
    THEN SuiteTasks(suite) \cup {<<n, 0>> : n \in 1..Len(suite.families)}
    ELSE FamilyTasks(suite, p[1])

\* the nodes the trigger of p names: "<name> == complete" names the sibling
\* of that name
Resolve(suite, p) ==
    LET node == NodeAt(suite, p)
    IN  IF node.trigger = <<>> THEN [none |-> TRUE, on |-> {}]
        ELSE [none |-> FALSE,
              on   |-> {q \in Siblings(suite, p) :
                          node.trigger[1] = CompleteExpr(NodeAt(suite, q).name)}]

ResolveAll(suite) ==
    [p \in AllTasks(suite) \cup {<<n, 0>> : n \in 1..Len(suite.families)} |->
        Resolve(suite, p)]

\* the tasks of the n-th family of the loaded suite
TasksOf(n) == {<<n, k>> : k \in 1..stages[n].size}

\* a family is complete when it has children and all of them are complete
NodeComplete(p) ==
    IF p[2] = 0
    THEN TasksOf(p[1]) # {} /\ \A q \in TasksOf(p[1]) : status[q] = "complete"
    ELSE status[p] = "complete"

TriggerHolds(p) ==
    \/ refs[p].none
    \/ refs[p].on # {} /\ \A q \in refs[p].on : NodeComplete(q)

\* a task may start when its own trigger and its family's trigger hold
Free(p) == TriggerHolds(p) /\ (p[1] # 0 => TriggerHolds(<<p[1], 0>>))

PrepTask == <<0, 1>>

\* the scripts that open rapid_run.json for reading
ReaderScripts ==
    { PyScript("run_rapid_forecast.py"), PyScript("netcdf_to_zarr.py"),
      PyScript("compute_init_flows.py"), PyScript("archive_to_aws.py") }

\* the value of variable key of a node ("" when it has none)
RECURSIVE VariableValue(_, _)
VariableValue(variables, key) ==
    IF variables = <<>> THEN ""
    ELSE IF Head(variables)[1] = key THEN Head(variables)[2]
    ELSE VariableValue(Tail(variables), key)

\* the tasks whose script (the PYSCRIPT of their family) reads rapid_run.json
Readers(suite) ==
    {p \in AllTasks(suite) :
        /\ p[1] # 0
        /\ VariableValue(suite.families[p[1]].variables, "PYSCRIPT")
              \in ReaderScripts}

\* the suite's families in the order they were added: name and size
Stages(suite) ==
    [n \in 1..Len(suite.families) |->
        [name |-> suite.families[n].name,
         size |-> Len(suite.families[n].tasks)]]

IsReader(p) == p \in readers

\* the server has loaded and begun the suite create saved
InitRun ==
    /\ vpu_list \in VpuLists
    /\ local_run \in BOOLEAN
    /\ members \in {RunMembers} \cup (IF local_run THEN {NumEnsembles} ELSE {})
    /\ pc = "done"
    /\ defs = <<>>
    /\ check = <<>>
    /\ raised = <<>>
    /\ def_file = <<config.suite_name \o ".def">>
    /\ \E suite \in {BuiltDefs(vpu_list, local_run, members)[1]} :
          /\ stages = Stages(suite)
          /\ refs = ResolveAll(suite)
          /\ readers = Readers(suite)
          /\ status = [p \in AllTasks(suite) |-> "queued"]
    /\ file = "absent"
    /\ NoTable
    /\ NoDeploy
    /\ NoTwin
    /\ NoPath
    /\ NoClient
    /\ NoNode
    /\ NoExpr
    /\ NoCall
    /\ NoBoot
    /\ NoTmpl
    /\ NoInc
    /\ NoPkg
    /\ NoFin

SetStatus(p, s) ==
    /\ status' = [status EXCEPT ![p] = s]
    /\ UNCHANGED <<notRun, loadVars>>

Submit(p) ==
    /\ status[p] = "queued"
    /\ Free(p)
    /\ SetStatus(p, "submitted")
    /\ UNCHANGED file

Activate(p) ==
    /\ status[p] = "submitted"
    /\ SetStatus(p, "active")
    /\ UNCHANGED file

\* open(os.path.join(output_dir, "rapid_run.json"), "w") in the prep job
PrepOpen ==
    /\ status[PrepTask] = "active"
    /\ file = "absent"
    /\ file' = "partial"
    /\ UNCHANGED <<notRun, loadVars, status>>

\* json.dump(master_dict, f) and the end of the with block
PrepDump ==
    /\ status[PrepTask] = "active"
    /\ file = "partial"
    /\ file' = "written"
    /\ UNCHANGED <<notRun, loadVars, status>>

\* the job's script ran to its end (the prep script ends after its dump)
Complete(p) ==
    /\ status[p] = "active"
    /\ p = PrepTask => file = "written"
    /\ SetStatus(p, "complete")
    /\ UNCHANGED file

\* the job could not be submitted, or its script failed
Abort(p) ==
    /\ status[p] \in {"submitted", "active"}
    /\ SetStatus(p, "aborted")
    /\ UNCHANGED file

NextRun ==
    \/ \E p \in DOMAIN status : Submit(p)
    \/ \E p \in DOMAIN status : Activate(p)
    \/ PrepOpen
    \/ PrepDump
    \/ \E p \in DOMAIN status : Complete(p)
    \/ \E p \in DOMAIN status : Abort(p)

SpecRun == InitRun /\ [][NextRun]_vars

\* the run under the scheduler's promise: a task whose triggers hold is
\* submitted and started, and a started job runs to its end (none aborts)
NextRunFair ==
    \/ \E p \in DOMAIN status : Submit(p)
    \/ \E p \in DOMAIN status : Activate(p)
    \/ PrepOpen
    \/ PrepDump
    \/ \E p \in DOMAIN status : Complete(p)

SpecRunFair ==
    /\ InitRun
    /\ [][NextRunFair]_vars
    /\ WF_vars(\E p \in DOMAIN status : Submit(p))
    /\ WF_vars(\E p \in DOMAIN status : Activate(p))
    /\ WF_vars(PrepOpen)
    /\ WF_vars(PrepDump)
    /\ WF_vars(\E p \in DOMAIN status : Complete(p))

AllComplete == \A p \in DOMAIN status : status[p] = "complete"

\* C28: the triggers create generates hold no cycle, in either mode: when
\* every task whose triggers hold is started and every started task runs
\* to its end, every task of the suite is eventually complete.
C28_EveryTaskEventuallyComplete == <>AllComplete

C28_Witness ==
    /\ AllComplete
    /\ local_run
    /\ members = NumEnsembles
    /\ Len(vpu_list) = MaxVpus
    /\ status[<<6, MaxVpus>>] = "complete"

Running == {p \in DOMAIN status : status[p] \in {"submitted", "active"}}

\* C4: in the run of a suite built with local_run true at most one task is
\* submitted or active at any time
C4_LocalRunSerialized == local_run => Cardinality(Running) <= 1

C4_Witness ==
    /\ local_run
    /\ members = NumEnsembles
    /\ Len(vpu_list) = MaxVpus
    /\ status[<<6, MaxVpus>>] = "active"
    /\ status[<<1, MaxVpus * NumEnsembles>>] = "complete"

\* the stages in the order claimed: prep_task, then the six families
StageNames ==
    << config.rapid_family_name, config.esri_table_family_name,
       config.nc_to_zarr_family_name, config.init_flows_family_name,
       config.day_one_family_name, config.aws_family_name >>

\* C5: the families are, in order, rapid, esri table, nc_to_zarr,
\* init_flows, day_one and aws, each with a trigger that names exactly its
\* predecessor's completion (prep_task for the rapid family), and no
\* task of a stage has left the queued state unless every task of the
\* preceding stage is complete
C5_StagesInOrder ==
    /\ Len(stages) = 6
    /\ \A n \in 1..6 :
          /\ stages[n].name = StageNames[n]
          /\ ~refs[<<n, 0>>].none
          /\ refs[<<n, 0>>].on =
                {IF n = 1 THEN PrepTask ELSE <<n - 1, 0>>}
          /\ (\E p \in TasksOf(n) : status[p] # "queued") =>
                IF n = 1 THEN status[PrepTask] = "complete"
                ELSE \A q \in TasksOf(n - 1) : status[q] = "complete"

C5_Witness ==
    /\ ~local_run
    /\ Len(vpu_list) = MaxVpus
    /\ \A k \in 1..MaxVpus : status[<<6, k>>] = "active"

\* C6: a task whose script reads rapid_run.json (it does so while active)
\* has not left the queued state unless prep_task is complete and the file
\* is written in full, and prep_task is complete only with the file written
C6_SideTableWrittenBeforeRead ==
    /\ status[PrepTask] = "complete" => file = "written"
    /\ \A p \in DOMAIN status :
          (IsReader(p) /\ status[p] # "queued") =>
              status[PrepTask] = "complete" /\ file = "written"

C6_Witness ==
    /\ file = "written"
    /\ Len(vpu_list) = MaxVpus
    /\ \E p \in DOMAIN status :
          p[1] = 6 /\ IsReader(p) /\ status[p] = "active"
    /\ \E p \in DOMAIN status :
          p[1] = 1 /\ IsReader(p) /\ status[p] = "complete"

\* ---------------------------------------------------------------------
\* The job table rapid_run.json: prep_rapid_forecast.py writes it,
\* run_rapid_forecast.py reads it.
\* ---------------------------------------------------------------------

MaxDates == 2

RunoffDates == {"202401" \o ToString(10 + k) \o ".00" : k \in 1..MaxDates}

EnsembleNumbers == {1, NumEnsembles}

PathJoin(a, b) == a \o "/" \o b

\* glob(os.path.join(runoff_base_dir, "IFS.48r1.Runoff*.netcdf"))
RunoffDir(runoff_base_dir, date) ==
    PathJoin(runoff_base_dir, "IFS.48r1.Runoff." \o date \o ".netcdf")

\* the date in the name of a runoff directory
get_date_from_forecast_dir(runoff_base_dir, runoff_dir) ==
    CHOOSE d \in RunoffDates : RunoffDir(runoff_base_dir, d) = runoff_dir

\* a file "<n>.runoff.nc" of a runoff directory, its name split on "."
RunoffFile(runoff_dir, n) ==
    [dir |-> runoff_dir, name |-> <<ToString(n), "runoff", "nc">>]

RunoffPath(runoff) ==
    PathJoin(runoff.dir,
             runoff.name[1] \o "." \o runoff.name[2] \o "." \o runoff.name[3])

PyInt(s) == CHOOSE n \in 0..NumEnsembles : ToString(n) = s

get_ensemble_number_from_forecast(runoff) == PyInt(runoff.name[1])

\* ensemble_runoff_list.sort(key=..., reverse=True)
RECURSIVE SortReverse(_)
SortReverse(files) ==
    IF files = {} THEN <<>>
    ELSE LET first == CHOOSE f \in files : \A g \in files :
                 get_ensemble_number_from_forecast(g)
                     <= get_ensemble_number_from_forecast(f)
         IN <<first>> \o SortReverse(files \ {first})

JobId(vpu, ensemble_number) ==
    "job_" \o vpu \o "_" \o ToString(ensemble_number)

\* the one-key dict appended to master_dict["dates"][date]
JobEntry(rapid_io_dir, vpu, date, runoff) ==
    LET ensemble_number == get_ensemble_number_from_forecast(runoff)
        master_vpu_input_dir == PathJoin(PathJoin(rapid_io_dir, "input"), vpu)
        master_vpu_outflow_dir ==
            PathJoin(PathJoin(PathJoin(rapid_io_dir, "output"), vpu), date)
        outflow_file_name ==
            "Qout_" \o vpu \o "_" \o ToString(ensemble_number) \o ".nc"
    IN JobId(vpu, ensemble_number) :>
           [runoff |-> RunoffPath(runoff),
            vpu |-> vpu,
            ensemble |-> ensemble_number,
            input_dir |-> master_vpu_input_dir,
            output_file |-> PathJoin(master_vpu_outflow_dir, outflow_file_name),
            init_flows |-> TRUE]

RECURSIVE DateJobs(_, _, _, _, _)
DateJobs(rapid_io_dir, vpus, date, runoff_list, i) ==
    IF i > Len(vpus) THEN <<>>
    ELSE [k \in 1..Len(runoff_list) |->
              JobEntry(rapid_io_dir, vpus[i], date, runoff_list[k])]
         \o DateJobs(rapid_io_dir, vpus, date, runoff_list, i + 1)

rapid_forecast_preprocess(rapid_io_dir, runoff_base_dir, vpus, dates, numbers) ==
    [input_dir |-> PathJoin(rapid_io_dir, "input"),
     output_dir |-> PathJoin(rapid_io_dir, "output"),
     runoff_dir |-> runoff_base_dir,
     dates |->
        [date \in dates |->
            LET runoff_dir == RunoffDir(runoff_base_dir, date)
                ensemble_runoff_list ==
                    SortReverse({RunoffFile(runoff_dir, n) : n \in numbers})
            IN DateJobs(rapid_io_dir, vpus,
                        get_date_from_forecast_dir(runoff_base_dir, runoff_dir),
                        ensemble_runoff_list, 1)]]

\* the job ids of the table, each with the entry written for it
WrittenJobs(data) ==
    UNION {UNION {{[date |-> date, job_id |-> job_id,
                    entry |-> data.dates[date][k][job_id]] :
                       job_id \in DOMAIN data.dates[date][k]} :
                  k \in 1..Len(data.dates[date])} :
           date \in DOMAIN data.dates}

WrittenJobIds(data) == {w.job_id : w \in WrittenJobs(data)}

JobKeys == {"runoff", "vpu", "input_dir", "output_file", "init_flows"}

\* run_rapid_forecast.py up to the last read of the job's entry: what it
\* raised ("" if nothing) and the values it read
rapid_forecast_exec(data, job_id) ==
    IF "date" \notin DOMAIN data
    THEN [raised |-> "KeyError: 'date'", job |-> <<>>]
    ELSE LET found == job_id \in DOMAIN data
         IN IF ~found \/ DOMAIN data[job_id] = {}
            THEN [raised |-> "ValueError: Job " \o job_id \o " not found.",
                  job |-> <<>>]
            ELSE IF \E key \in JobKeys : key \notin DOMAIN data[job_id]
            THEN [raised |-> "KeyError", job |-> <<>>]
            ELSE [raised |-> "",
                  job |-> <<[key \in JobKeys |-> data[job_id][key]]>>]

\* the job ids a suite task can be given in its JOB_ID variable
JobIds == {JobId(vpu, n) : vpu \in VpuCodes, n \in EnsembleNumbers}

\* python3 prep_rapid_forecast.py <rapid_io_dir> <runoff_base_dir> <output_dir>
Preprocess ==
    /\ tpc = "prep"
    /\ rapid_run_json' = <<rapid_forecast_preprocess(
                             "rapid_io", "runoff", vpu_list,
                             runoff_dates, ensembles)>>
    /\ tpc' = "exec"
    /\ UNCHANGED <<runoff_dates, ensembles, exec_out>>
    /\ UNCHANGED notTable

\* python3 run_rapid_forecast.py <ecf_files> <job_id> ...
Exec(job_id) ==
    /\ tpc = "exec"
    /\ job_id \in WrittenJobIds(rapid_run_json[1])
    /\ exec_out' = exec_out \cup
           {[job_id |-> job_id,
             result |-> rapid_forecast_exec(rapid_run_json[1], job_id)]}
    /\ UNCHANGED <<tpc, runoff_dates, ensembles, rapid_run_json>>
    /\ UNCHANGED notTable

InitTable ==
    /\ pc = "off"
    /\ vpu_list \in VpuLists
    /\ local_run = FALSE /\ members = NumEnsembles
    /\ defs = <<>> /\ check = <<>> /\ raised = <<>> /\ def_file = <<>>
    /\ NoRun
    /\ NoDeploy
    /\ NoTwin
    /\ tpc = "prep"
    /\ runoff_dates \in SUBSET RunoffDates
    /\ ensembles \in SUBSET EnsembleNumbers
    /\ rapid_run_json = <<>>
    /\ exec_out = {}
    /\ NoPath
    /\ NoClient
    /\ NoNode
    /\ NoExpr
    /\ NoCall
    /\ NoBoot
    /\ NoTmpl
    /\ NoInc
    /\ NoPkg
    /\ NoFin

NextTable ==
    \/ Preprocess
    \/ \E job_id \in JobIds : Exec(job_id)

SpecTable == InitTable /\ [][NextTable]_vars

\* C7: every job id that rapid_forecast_preprocess wrote is found by
\* rapid_forecast_exec, which raises nothing and reads back the runoff,
\* vpu, input_dir, output_file and init_flows written for that job id.
C7_ExecReadsBackWrittenEntry ==
    \A o \in exec_out :
        /\ o.result.raised = ""
        /\ \E w \in WrittenJobs(rapid_run_json[1]) :
               /\ w.job_id = o.job_id
               /\ \A key \in JobKeys : o.result.job[1][key] = w.entry[key]

\* ---------------------------------------------------------------------
\* sdeploy: build a suite with a builder module and install it in the
\* target directory (workflow/comfies/sdeploy.py).
\* ---------------------------------------------------------------------

def_filename == config.suite_name \o ".def"

\* the task scripts and include files find_scripts locates for the suite
SuiteScripts == {"prep_task.ecf", "ens.ecf"}

SuiteIncludes == {"head.h"}

\* the names a caller can pass as target files; "stray.ecf" is no file
\* of the suite
TargetNames == {def_filename, "ens.ecf", "head.h", "stray.ecf"}

\* match_files_to_paths within find_scripts: the paths among found that
\* the caller asked for (all of them when filenames is None)
find_scripts(filenames) ==
    IF filenames = <<>>
    THEN [scripts |-> SuiteScripts, includes |-> SuiteIncludes,
          remaining |-> {}]
    ELSE [scripts |-> SuiteScripts \cap filenames[1],
          includes |-> SuiteIncludes \cap filenames[1],
          remaining |-> filenames[1] \ (SuiteScripts \cup SuiteIncludes)]

\* target_files after the definition file is dealt with: <<>> is None
RemainingTargets(targets) ==
    IF targets = {} THEN <<>> ELSE <<targets \ {def_filename}>>

write_def(targets) == targets = {} \/ def_filename \in targets

\* the directories of the target: destdir, scripts_destdir and
\* includes_destdir
destdir == "target"

scripts_destdir == "target/ecf"

includes_destdir == "target/inc"

\* the items of the deploy config as read from the file, by key path
FileConfig ==
    [keys \in {<<"target", "root">>, <<"suite", "name">>} |->
        IF keys = <<"target", "root">> THEN "/srv" ELSE "geoglows"]

\* the key paths a parameter name can stand for
KeyPaths == {<<"target", "root">>, <<"suite", "name">>, <<"id">>}

RECURSIVE dotted(_)
dotted(keys) ==
    IF Len(keys) = 1 THEN keys[1]
    ELSE keys[1] \o "." \o dotted(Tail(keys))

\* path.split('.')
split(path) == CHOOSE keys \in KeyPaths : dotted(keys) = path

IsPrefix(keys, other) ==
    Len(keys) <= Len(other) /\ SubSeq(other, 1, Len(keys)) = keys

\* Config.set: update(self._data, data) with data the nested dict of
\* the path; the value takes the place of what was at the path
Config_set(data, path, value) ==
    LET keys == split(path)
        kept == {k \in DOMAIN data : ~IsPrefix(keys, k)}
    IN [k \in kept \cup {keys} |-> IF k = keys THEN value ELSE data[k]]

\* Config.get with the default type, str
Config_get(data, path) == data[split(path)]

\* for param, value in params_values.items(): config.set(param, value)
RECURSIVE set_params(_, _)
set_params(data, params) ==
    IF DOMAIN params = {} THEN data
    ELSE LET param == CHOOSE param \in DOMAIN params : TRUE
         IN set_params(Config_set(data, param, params[param]),
                       [q \in DOMAIN params \ {param} |-> params[q]])

\* the params_values a caller passes: none, a file parameter, a new
\* parameter with a two-character name, or both
ParamsValues ==
    {<<>>,
     [param \in {"target.root"} |-> "/tmp/x"],
     [param \in {"id"} |-> "7"],
     [param \in {"target.root", "id"} |->
         IF param = "id" THEN "7" ELSE "/tmp/x"]}

\* for param, value in params_values: each key of the dict is unpacked
\* into two names, which only a key of two characters allows
unpacks(params) == \A param \in DOMAIN params : Len(param) = 2

DeployRaise(message) ==
    /\ derror' = <<message>>
    /\ dpc' = "raised"

\* config = read_deploy_config(config_path) and the config.get calls
ReadDeployConfig ==
    /\ dpc = "read_config"
    /\ \/ DeployRaise("ConfigError") /\ UNCHANGED <<task_section, dconfig>>
       \/ /\ task_section' \in BOOLEAN
          /\ dconfig' = set_params(FileConfig, params_values)
          /\ dpc' = "build"
          /\ UNCHANGED derror
    /\ UNCHANGED <<dry_run, target_files, dcheck, written, made_dirs,
                   params_values>>
    /\ UNCHANGED notDeploy

\* BaseBuilder.__call__ as what defs.check() returned and what it raised
BuilderCall(build_ok, errors) ==
    IF ~build_ok
    THEN [check |-> <<>>, raised |-> <<"suite generation failed">>]
    ELSE [check |-> errors, raised |-> <<>>]

\* suite_builder()
SuiteBuilder ==
    /\ dpc = "build"
    /\ \E build_ok \in BOOLEAN, errors \in CheckResults :
           LET call == BuilderCall(build_ok, errors)
           IN /\ dcheck' = call.check
              /\ derror' = call.raised
              /\ dpc' = IF call.raised = <<>> THEN "write_def" ELSE "raised"
    /\ UNCHANGED <<dry_run, target_files, task_section, written, made_dirs,
                   params_values, dconfig>>
    /\ UNCHANGED notDeploy

\* ensure_dir(destdir), for a local target of the user's own, and
\* file_writer(str(suite_builder.defs), def_path)
WriteDef ==
    /\ dpc = "write_def"
    /\ written' = IF write_def(target_files) /\ ~dry_run
                  THEN written \cup {def_filename} ELSE written
    /\ \E local \in BOOLEAN :
           made_dirs' = IF write_def(target_files) /\ ~dry_run /\ local
                        THEN made_dirs \cup {destdir} ELSE made_dirs
    /\ dpc' = "find_scripts"
    /\ UNCHANGED <<dry_run, target_files, task_section, dcheck, derror,
                   params_values, dconfig>>
    /\ UNCHANGED notDeploy

\* suite_scripts_finder.find_scripts(suite, filenames=target_files)
FindScripts ==
    /\ dpc = "find_scripts"
    /\ IF find_scripts(RemainingTargets(target_files)).remaining # {}
       THEN DeployRaise("FileNotFoundError")
       ELSE dpc' = "install_scripts" /\ UNCHANGED derror
    /\ UNCHANGED <<dry_run, target_files, task_section, dcheck, written,
                   made_dirs, params_values, dconfig>>
    /\ UNCHANGED notDeploy

\* ScriptsInstaller.install: the files in done are processed and written,
\* the next one, if any is left, fails with a TemplateError; the
\* directory is ensured before each file is read
install_always(srcpaths, dir, done, to) ==
    /\ done \subseteq srcpaths
    /\ written' = written \cup done
    /\ made_dirs' = IF srcpaths = {} THEN made_dirs
                    ELSE made_dirs \cup {dir}
    /\ IF done # srcpaths
       THEN DeployRaise("TemplateError")
       ELSE dpc' = to /\ UNCHANGED derror

install(srcpaths, dir, done, to) ==
    /\ done \subseteq srcpaths
    /\ written' = IF dry_run THEN written ELSE written \cup done
    /\ made_dirs' = IF dry_run \/ srcpaths = {} THEN made_dirs
                    ELSE made_dirs \cup {dir}
    /\ IF done # srcpaths
       THEN DeployRaise("TemplateError")
       ELSE dpc' = to /\ UNCHANGED derror

\* scripts_installer.install(scripts_srcpaths, scripts_destdir)
InstallScripts ==
    /\ dpc = "install_scripts"
    /\ \E done \in SUBSET SuiteScripts :
           install(find_scripts(RemainingTargets(target_files)).scripts,
                   scripts_destdir, done, "install_includes")
    /\ UNCHANGED <<dry_run, target_files, task_section, dcheck,
                   params_values, dconfig>>
    /\ UNCHANGED notDeploy

\* scripts_installer.install(includes_srcpaths, includes_destdir)
InstallIncludes ==
    /\ dpc = "install_includes"
    /\ \E done \in SUBSET SuiteIncludes :
           install(find_scripts(RemainingTargets(target_files)).includes,
                   includes_destdir, done, "task_cfg")
    /\ UNCHANGED <<dry_run, target_files, task_section, dcheck,
                   params_values, dconfig>>
    /\ UNCHANGED notDeploy

\* ensure_dir(includes_destdir), for the user's own target, and
\* file_writer(ksh_code, taskcfg_path)
WriteTaskCfg ==
    /\ dpc = "task_cfg"
    /\ written' = IF task_section /\ ~dry_run
                  THEN written \cup {"task.cfg"} ELSE written
    /\ \E own \in BOOLEAN :
           made_dirs' = IF task_section /\ ~dry_run /\ own
                        THEN made_dirs \cup {includes_destdir}
                        ELSE made_dirs
    /\ dpc' = "config_copy"
    /\ UNCHANGED <<dry_run, target_files, task_section, dcheck, derror,
                   params_values, dconfig>>
    /\ UNCHANGED notDeploy

\* the copy of the deployment config, written when it came from a file:
\* cmdline_config_text is built from params_values before anything is
\* written, and a key that does not unpack ends the run with a ValueError
CopyConfig ==
    /\ dpc = "config_copy"
    /\ \E isfile \in BOOLEAN :
           IF isfile /\ ~unpacks(params_values)
           THEN /\ derror' = <<"ValueError">>
                /\ dpc' = "raised"
                /\ UNCHANGED written
           ELSE /\ written' = IF isfile /\ ~dry_run
                               THEN written \cup {"sdeploy_config_copy"}
                               ELSE written
                /\ dpc' = "complete"
                /\ UNCHANGED derror
    /\ UNCHANGED <<dry_run, target_files, task_section, dcheck, made_dirs,
                   params_values, dconfig>>
    /\ UNCHANGED notDeploy

\* sdeploy(config_path, target_files, params_values, dry_run)
InitDeploy ==
    /\ NoCreate
    /\ NoRun
    /\ NoTable
    /\ NoTwin
    /\ dpc = "read_config"
    /\ dry_run \in BOOLEAN
    /\ target_files \in SUBSET TargetNames
    /\ task_section = FALSE
    /\ dcheck = <<>>
    /\ derror = <<>>
    /\ written = {}
    /\ made_dirs = {}
    /\ params_values \in ParamsValues
    /\ dconfig = <<>>
    /\ NoPath
    /\ NoClient
    /\ NoNode
    /\ NoExpr
    /\ NoCall
    /\ NoBoot
    /\ NoTmpl
    /\ NoInc
    /\ NoPkg
    /\ NoFin

NextDeploy ==
    \/ ReadDeployConfig
    \/ SuiteBuilder
    \/ WriteDef
    \/ FindScripts
    \/ InstallScripts
    \/ InstallIncludes
    \/ WriteTaskCfg
    \/ CopyConfig

SpecDeploy == InitDeploy /\ [][NextDeploy]_vars

\* C9: when defs.check() reports errors in the sdeploy path, the build
\* ends with an error carrying the validator's errors, and neither the
\* definition file nor a script or include file is written to the target.
C9_NoArtifactAfterFailedCheck ==
    dcheck # <<>> =>
        /\ dpc = "raised"
        /\ derror = dcheck
        /\ written \cap ({def_filename} \cup SuiteScripts \cup SuiteIncludes)
               = {}

\* ---------------------------------------------------------------------
\* The tasks of the rapid run family that create builds.
\* ---------------------------------------------------------------------

C13_EnsembleFamilyJobIndex ==
    Len(Families) >= 1 =>
        LET f == Families[1]
            t == config.rapid_task_name
        IN  /\ Len(f.tasks) = NumEnsembles
            /\ \A i \in 1..NumEnsembles :
                 LET named == TaskNamed(f, t \o "_" \o ToString(i))
                 IN  /\ Cardinality(named) = 1
                     /\ \A task \in named :
                          VariableValue(task.variables, "JOB_INDEX")
                              = ToString(NumEnsembles - i)

\* ---------------------------------------------------------------------
\* create run twice on the same configuration and the same input
\* directory, the two builds taking each step together.
\* ---------------------------------------------------------------------

\* a plain file that may lie among the VPU directories
PlainFiles == {"README.md"}

\* os.listdir returns the entries of a directory in arbitrary order
listdir(directory) ==
    LET entries == directory.dirs \cup directory.files
    IN  {s \in DistinctSeqs(entries, Cardinality(entries)) :
            NoDuplicates(s) /\ {s[k] : k \in 1..Len(s)} = entries}

\* get_valid_vpucode_list keeps the directories, in the order listed
get_valid_vpucode_list(directory, listed) ==
    LET isdir(entry) == entry \in directory.dirs
    IN  SelectSeq(listed, isdir)

BuildStages ==
    <<"add_suite", "rapid", "esri_table", "nc_to_zarr", "init_flows",
      "day_one", "aws">>

\* the statements of create that add one part to the definition
CreateStage(stage, d, vpus, is_local) ==
    CASE stage = "add_suite"  -> AddSuiteAndPrepTask(d, is_local)
      [] stage = "rapid"      -> AddRapidRunFamily(d, vpus, is_local,
                                                   NumEnsembles)
      [] stage = "esri_table" -> AddEsriTableFamily(d, vpus, is_local)
      [] stage = "nc_to_zarr" -> AddNcToZarrFamily(d, vpus, is_local)
      [] stage = "init_flows" -> AddInitFlowsFamily(d, vpus, is_local)
      [] stage = "day_one"    -> AddDayOneFamily(d, vpus, is_local)
      [] stage = "aws"        -> AddAwsFamily(d, vpus, is_local)

\* vpu_list = get_valid_vpucode_list(os.path.join(workspace, "input")),
\* in both builds
TwinList ==
    /\ bpc = 0
    /\ \E first, second \in listdir(input_dir) :
           listing' = <<get_valid_vpucode_list(input_dir, first),
                        get_valid_vpucode_list(input_dir, second)>>
    /\ bpc' = 1
    /\ UNCHANGED <<input_dir, built>>
    /\ UNCHANGED <<createVars, notTwin>>

\* the next part of the definition, in both builds
TwinBuild ==
    /\ bpc \in 1..Len(BuildStages)
    /\ built' = [r \in 1..2 |->
                    CreateStage(BuildStages[bpc], built[r], listing[r],
                                local_run)]
    /\ bpc' = bpc + 1
    /\ UNCHANGED <<input_dir, listing>>
    /\ UNCHANGED <<createVars, notTwin>>

InitTwin ==
    /\ pc = "off" /\ vpu_list = <<>>
    /\ local_run \in BOOLEAN
    /\ members = NumEnsembles
    /\ defs = <<>> /\ check = <<>> /\ raised = <<>> /\ def_file = <<>>
    /\ NoRun
    /\ NoTable
    /\ NoDeploy
    /\ bpc = 0
    /\ input_dir \in [dirs : SUBSET VpuCodes, files : SUBSET PlainFiles]
    /\ listing = <<>>
    /\ built = <<<<>>, <<>>>>
    /\ NoPath
    /\ NoClient
    /\ NoNode
    /\ NoExpr
    /\ NoCall
    /\ NoBoot
    /\ NoTmpl
    /\ NoInc
    /\ NoPkg
    /\ NoFin

NextTwin == TwinList \/ TwinBuild

SpecTwin == InitTwin /\ [][NextTwin]_vars

\* the names of the tasks of a definition
TaskNames(d) ==
    IF d = <<>> THEN {}
    ELSE {d[1].tasks[k].name : k \in 1..Len(d[1].tasks)}
         \cup UNION {{d[1].families[n].tasks[k].name :
                         k \in 1..Len(d[1].families[n].tasks)} :
                     n \in 1..Len(d[1].families)}

\* the trigger string of every family and of every task of a definition
TriggerStrings(d) ==
    IF d = <<>> THEN {}
    ELSE {<<d[1].families[n].name, d[1].families[n].trigger>> :
             n \in 1..Len(d[1].families)}
         \cup {<<d[1].tasks[k].name, d[1].tasks[k].trigger>> :
                 k \in 1..Len(d[1].tasks)}
         \cup UNION {{<<d[1].families[n].tasks[k].name,
                        d[1].families[n].tasks[k].trigger>> :
                         k \in 1..Len(d[1].families[n].tasks)} :
                     n \in 1..Len(d[1].families)}

\* C11: two builds from the same configuration and the same input
\* directory have, after every step, the same task names and the same
\* trigger string on every family and task.
C11_TwinBuildsAgree ==
    /\ TaskNames(built[1]) = TaskNames(built[2])
    /\ TriggerStrings(built[1]) = TriggerStrings(built[2])

\* ---------------------------------------------------------------------
\* ooflow: nodes and the path of one node relative to another
\* (workflow/comfies/ooflow.py).
\* ---------------------------------------------------------------------

MaxDepth == 5

SuiteNames == {"s1", "s2"}

ChildNames == {"f", "g"}

\* a node is known by the names from its suite down to itself; every
\* suite holds every family or task name at every level down to MaxDepth
RECURSIVE NodesOfDepth(_)
NodesOfDepth(d) ==
    IF d = 1 THEN {<<s>> : s \in SuiteNames}
    ELSE {Append(n, c) : n \in NodesOfDepth(d - 1), c \in ChildNames}

Nodes == UNION {NodesOfDepth(d) : d \in 1..MaxDepth}

NullNode == <<>>

\* node.parent
Parent(node) ==
    IF Len(node) <= 1 THEN NullNode ELSE SubSeq(node, 1, Len(node) - 1)

RECURSIVE lineage(_)
lineage(node) ==
    IF node = NullNode THEN <<>> ELSE <<node>> \o lineage(Parent(node))

root(node) == lineage(node)[Len(lineage(node))]

descends_from(node, other) ==
    \E k \in 1..Len(lineage(node)) : lineage(node)[k] = other

\* related_to answering yes for every pair of nodes
related_to_any(node, other) == TRUE

related_to(node, other) == descends_from(node, root(other))

\* Most Recent Common Ancestor of two nodes
mrca(a, b) ==
    LET lin == lineage(a)
        common == {k \in 1..Len(lin) : descends_from(b, lin[k])}
    IN  IF common = {} THEN NullNode
        ELSE lin[CHOOSE k \in common : \A m \in common : k <= m]

IsSuite(node) == Len(node) = 1

\* a path string as its parts between the "/"s; absolute when it starts
\* with "/"; the empty string has no part
PathText(abs, parts) == [abs |-> abs, parts |-> parts]

EmptyText == PathText(FALSE, <<>>)

\* node.path: get_abs_node_path()
AbsPath(node) == PathText(TRUE, node)

\* os.path.dirname and os.path.basename of an absolute path
dirname(path) ==
    PathText(TRUE, SubSeq(path.parts, 1, Len(path.parts) - 1))

basename(path) == path.parts[Len(path.parts)]

\* the length of the longest common prefix of two sequences
CommonPrefix(s, t) ==
    CHOOSE c \in 0..Len(s) :
        /\ c <= Len(t)
        /\ \A k \in 1..c : s[k] = t[k]
        /\ (c < Len(s) /\ c < Len(t)) => s[c + 1] # t[c + 1]

\* os.path.relpath(path, start) for two absolute paths
relpath(path, start) ==
    LET c == CommonPrefix(path.parts, start.parts)
        up == [k \in 1..(Len(start.parts) - c) |-> ".."]
        down == SubSeq(path.parts, c + 1, Len(path.parts))
    IN  IF up \o down = <<>> THEN PathText(FALSE, <<".">>)
        ELSE PathText(FALSE, up \o down)

\* _relpath with a bare name for the parent of start
relpath_bare_parent(path, start) ==
    LET rel == relpath(path, dirname(start))
    IN  IF path = start THEN PathText(FALSE, <<basename(path)>>)
        ELSE IF Len(rel.parts) >= 2 /\ rel.parts[1] = ".."
                /\ rel.parts[2] = ".." THEN path
        ELSE IF rel.parts[Len(rel.parts)] = ".." THEN path
        ELSE IF rel.parts = <<".">>
             THEN PathText(FALSE, <<basename(path)>>)
        ELSE rel

_relpath(path, start) ==
    LET rel == relpath(path, dirname(start))
    IN  IF path = start THEN PathText(FALSE, <<basename(path)>>)
        ELSE IF Len(rel.parts) >= 2 /\ rel.parts[1] = ".."
                /\ rel.parts[2] = ".." THEN path
        ELSE IF rel.parts[Len(rel.parts)] = ".." THEN path
        ELSE IF rel.parts = <<".">>
             THEN PathText(FALSE, <<"..", basename(path)>>)
        ELSE rel

\* Node.path_relto(other)
path_relto(self, other) ==
    IF ~related_to(other, self) THEN EmptyText
    ELSE IF IsSuite(mrca(self, other)) THEN AbsPath(self)
    ELSE _relpath(AbsPath(self), AbsPath(other))

\* text = self_node.path_relto(other_node)
PathRelto ==
    /\ relto = <<>>
    /\ relto' = <<path_relto(self_node, other_node)>>
    /\ UNCHANGED <<self_node, other_node>>
    /\ UNCHANGED notPath

InitPath ==
    /\ NoCreate
    /\ NoRun
    /\ NoTable
    /\ NoDeploy
    /\ NoTwin
    /\ self_node \in Nodes
    /\ other_node \in Nodes
    /\ relto = <<>>
    /\ NoClient
    /\ NoNode
    /\ NoExpr
    /\ NoCall
    /\ NoBoot
    /\ NoTmpl
    /\ NoInc
    /\ NoPkg
    /\ NoFin

NextPath == PathRelto

SpecPath == InitPath /\ [][NextPath]_vars

\* the nodes reached from cur by the parts of a path, ".." for the parent
\* and a name for the child of that name; <<>> stands for the definition
\* that holds the suites
RECURSIVE Walk(_, _)
Walk(cur, parts) ==
    IF parts = <<>> THEN {cur}
    ELSE IF Head(parts) = "." THEN Walk(cur, Tail(parts))
    ELSE IF Head(parts) = ".."
         THEN IF cur = <<>> THEN {} ELSE Walk(Parent(cur), Tail(parts))
    ELSE IF Append(cur, Head(parts)) \in Nodes
         THEN Walk(Append(cur, Head(parts)), Tail(parts))
    ELSE {}

\* the nodes a path string designates when it stands in an expression of
\* node from: an absolute path is followed from the root, a relative one
\* from the parent of from; the empty string designates nothing
Designated(text, from) ==
    IF text = EmptyText THEN {}
    ELSE IF text.abs THEN Walk(<<>>, text.parts)
    ELSE Walk(Parent(from), text.parts)

\* C17: for two nodes of one suite, the string a.path_relto(b) designates
\* a again when resolved from b; for nodes of two suites it is empty.
C17_PathReltoRoundTrip ==
    relto # <<>> =>
        IF root(self_node) = root(other_node)
        THEN Designated(relto[1], other_node) = {self_node}
        ELSE relto[1] = EmptyText

C17_Witness ==
    /\ relto # <<>>
    /\ Len(other_node) >= 3
    /\ self_node = Parent(other_node)
    /\ relto[1] = PathText(FALSE, <<"..", self_node[Len(self_node)]>>)

\* ---------------------------------------------------------------------
\* client.py: add_definition loads or replaces a definition on the server.
\* ---------------------------------------------------------------------

MaxRuns == 2

\* paths of definition files: the directory and the file name split on "."
Definitions ==
    { [dir |-> "/path/to", file |-> <<"geoglows_forecast", "def">>],
      [dir |-> "/path/to", file |-> <<"forecast", "v2", "def">>] }

\* os.path.basename(definition).split('.')[0]
definition_name(path) == path.file[1]

Call(name, args, ok) == [name |-> name, args |-> args, ok |-> ok]

\* the branch on defs that always loads
LoadAlways(got, path) == Call("load", <<path>>, TRUE)

\* ci.load(definition) if defs is None, else ci.replace("/<name>", definition)
LoadOrReplace(got, path) ==
    IF got = "None"
    THEN Call("load", <<path>>, TRUE)
    ELSE Call("replace", <<"/" \o definition_name(path), path>>, TRUE)

\* a call on the client returns (ok) or raises RuntimeError
ClientCall(call, ok, to) ==
    /\ calls' = Append(calls, [call EXCEPT !.ok = ok])
    /\ cpc' = IF ok THEN to ELSE "failed"

\* ping(host_port): a RuntimeError is caught and printed by ping itself
Ping ==
    /\ cpc = "ping"
    /\ \E ok \in BOOLEAN : calls' = Append(calls, Call("ping", <<>>, ok))
    /\ cpc' = "sync_local"
    /\ UNCHANGED <<server_defs, definition, got_defs>>
    /\ UNCHANGED notClient

\* ci.sync_local()
SyncLocal ==
    /\ cpc = "sync_local"
    /\ \E ok \in BOOLEAN : ClientCall(Call("sync_local", <<>>, ok), ok,
                                      "get_defs")
    /\ UNCHANGED <<server_defs, definition, got_defs>>
    /\ UNCHANGED notClient

\* defs = ci.get_defs()
GetDefs ==
    /\ cpc = "get_defs"
    /\ \E ok \in BOOLEAN :
           /\ got_defs' = IF ~ok THEN got_defs
                          ELSE IF server_defs THEN "Defs" ELSE "None"
           /\ ClientCall(Call("get_defs", <<got_defs'>>, ok), ok, "load")
    /\ UNCHANGED <<server_defs, definition>>
    /\ UNCHANGED notClient

\* the if on defs: ci.load or ci.replace
Load ==
    /\ cpc = "load"
    /\ \E ok \in BOOLEAN :
           /\ ClientCall(LoadOrReplace(got_defs, definition), ok, "restart")
           /\ server_defs' = (server_defs \/ ok)
    /\ UNCHANGED <<definition, got_defs>>
    /\ UNCHANGED notClient

\* ci.restart_server()
RestartServer ==
    /\ cpc = "restart"
    /\ \E ok \in BOOLEAN : ClientCall(Call("restart_server", <<>>, ok), ok,
                                      "done")
    /\ UNCHANGED <<server_defs, definition, got_defs>>
    /\ UNCHANGED notClient

\* add_definition is called once more
AddDefinitionAgain ==
    /\ cpc \in {"done", "failed"}
    /\ Cardinality({k \in 1..Len(calls) : calls[k].name = "ping"}) < MaxRuns
    /\ definition' \in Definitions
    /\ cpc' = "ping"
    /\ got_defs' = "unset"
    /\ UNCHANGED <<server_defs, calls>>
    /\ UNCHANGED notClient

InitClient ==
    /\ NoCreate
    /\ NoRun
    /\ NoTable
    /\ NoDeploy
    /\ NoTwin
    /\ NoPath
    /\ cpc = "ping"
    /\ server_defs \in BOOLEAN
    /\ definition \in Definitions
    /\ got_defs = "unset"
    /\ calls = <<>>
    /\ NoNode
    /\ NoExpr
    /\ NoCall
    /\ NoBoot
    /\ NoTmpl
    /\ NoInc
    /\ NoPkg
    /\ NoFin

NextClient ==
    \/ Ping
    \/ SyncLocal
    \/ GetDefs
    \/ Load
    \/ RestartServer
    \/ AddDefinitionAgain

SpecClient == InitClient /\ [][NextClient]_vars

\* C20: add_definition calls load(definition) exactly when get_defs()
\* returned None and replace("/<name>", definition) exactly when it
\* returned a definition, never both in one run, and restart_server only
\* right after a load or replace that returned without error.
C20_LoadOrReplaceThenRestart ==
    \A k \in 1..Len(calls) :
        LET call == calls[k]
            before == IF k > 1 THEN calls[k - 1] ELSE Call("", <<>>, FALSE)
        IN  /\ call.name = "load" =>
                /\ before = Call("get_defs", <<"None">>, TRUE)
                /\ call.args[1] \in Definitions
            /\ call.name = "replace" =>
                /\ before = Call("get_defs", <<"Defs">>, TRUE)
                /\ call.args[1] = "/" \o call.args[2].file[1]
            /\ (before.name = "get_defs" /\ before.ok) =>
                call.name = (IF before.args = <<"None">> THEN "load"
                             ELSE "replace")
            /\ call.name = "restart_server" =>
                /\ before.name \in {"load", "replace"}
                /\ before.ok
            /\ before.name \in {"load", "replace"} =>
                call.name \notin {"load", "replace"}

C20_Witness ==
    /\ cpc = "done"
    /\ \E k \in 1..Len(calls) : calls[k].name = "replace" /\ calls[k].ok
    /\ \E k \in 1..Len(calls) : calls[k].name = "load" /\ calls[k].ok
    /\ calls[Len(calls)].name = "restart_server"

\* ---------------------------------------------------------------------
\* A node container and a node's variables: ecflow.NodeContainer and
\* ecflow.Node as ooflow patches them, and utils.add_variables.
\* ---------------------------------------------------------------------

MaxCalls == 3

Keys == {"var1", "var2"}

Values == {"value1", "value2"}

\* a dict of variables: its items in order, no key twice
Dicts ==
    {<<>>} \cup {<<<<k, v>>>> : k \in Keys, v \in Values}
    \cup {d \in {<<<<k1, v1>>, <<k2, v2>>>> :
                     k1 \in Keys, k2 \in Keys, v1 \in Values, v2 \in Values} :
             d[1][1] # d[2][1]}

\* ecflow.NodeContainer.add_task / add_family of the ecFlow library: a
\* name already used by a child is refused with a RuntimeError
ecflow_add_child(kids, child) ==
    IF \E k \in 1..Len(kids) : kids[k].name = child.name
    THEN [children |-> kids,
          raised |-> <<"RuntimeError: A task/family of name '"
                       \o child.name \o "' already exist">>]
    ELSE [children |-> Append(kids, child), raised |-> <<>>]

\* add_to that adds the child whatever ecFlow answered
add_to_unchecked(child, kids) ==
    [children |-> Append(kids, [child EXCEPT !.parent = TRUE]),
     raised |-> <<>>]

\* _Task_add_to / _Family_add_to: node.ecflow_add_task(self), then
\* self.parent = node
add_to(child, kids) ==
    LET added == ecflow_add_child(kids, child)
    IN  IF added.raised # <<>> THEN added
        ELSE [added EXCEPT
                 !.children[Len(added.children)].parent = TRUE]

\* ecflow.Task(name) / ecflow.Family(name): no parent yet
NewNode(name, kind) == [name |-> name, kind |-> kind, parent |-> FALSE]

\* _NodeContainer_add_task / _NodeContainer_add_family
NodeContainer_add(kids, name, kind) == add_to(NewNode(name, kind), kids)

\* container.add_task(task) or container.add_family(family)
AddChild(name, kind) ==
    /\ ncalls \in 0..(MaxCalls - 1)
    /\ LET added == NodeContainer_add(children, name, kind)
       IN  /\ children' = added.children
           /\ last_add' = <<[name |-> name, kind |-> kind,
                             before |-> children, raised |-> added.raised]>>
    /\ ncalls' = ncalls + 1
    /\ UNCHANGED <<patched, ecflow_variables, oo_variables, given>>
    /\ UNCHANGED notNode

\* ecflow.Node.delete_variable and find_variable of the ecFlow library
ecflow_delete_variable(variables, key) ==
    LET keep(item) == item[1] # key
    IN  SelectSeq(variables, keep)

ecflow_find_variable(variables, key) ==
    LET is(item) == item[1] = key
    IN  SelectSeq(variables, is)

\* _Node_find_variable_wrapper: self.__variables.get(name, None)
oo_find_variable(node, key) == ecflow_find_variable(node.oo, key)

\* _Node_delete_variable_wrapper
oo_delete_variable(node, key) ==
    [ecflow |-> ecflow_delete_variable(node.ecflow, key),
     oo |-> ecflow_delete_variable(node.oo, key)]

\* _Node_add_full_variable keeping the variable object it already has
add_full_variable_keeping(node, key, value) ==
    LET found == oo_find_variable(node, key) # <<>>
        n1 == IF found THEN oo_delete_variable(node, key) ELSE node
    IN  [ecflow |-> ecflow_add_variable(n1.ecflow, key, value),
         oo |-> IF found THEN node.oo ELSE Append(n1.oo, <<key, value>>)]

\* _Node_add_full_variable: delete a variable of that name, add the new
\* one to ecFlow and to __variables
add_full_variable(node, key, value) ==
    LET found == oo_find_variable(node, key) # <<>>
        n1 == IF found THEN oo_delete_variable(node, key) ELSE node
    IN  [ecflow |-> ecflow_add_variable(n1.ecflow, key, value),
         oo |-> Append(n1.oo, <<key, value>>)]

\* _Node_add_variable for a dict: add_single_variable for each item
RECURSIVE oo_add_variables(_, _)
oo_add_variables(node, items) ==
    IF items = <<>> THEN node
    ELSE oo_add_variables(
             add_full_variable(node, Head(items)[1], Head(items)[2]),
             Tail(items))

\* node.find_variable(key): <<>> for None, else the variable
find_variable(key) ==
    IF patched
    THEN oo_find_variable([ecflow |-> ecflow_variables,
                           oo |-> oo_variables], key)
    ELSE ecflow_find_variable(ecflow_variables, key)

\* the values the items of a dict give, over what was given before
RECURSIVE Given(_, _)
Given(before, items) ==
    IF items = <<>> THEN before
    ELSE Given([before EXCEPT ![Head(items)[1]] = Head(items)[2]],
               Tail(items))

\* add_variables(entity, vars) or node.add_variable(dict);
\* node.add_variable(key, value) is the case of one item
AddVariables(items) ==
    /\ ncalls \in 0..(MaxCalls - 1)
    /\ IF patched
       THEN LET node == oo_add_variables([ecflow |-> ecflow_variables,
                                          oo |-> oo_variables], items)
            IN  /\ ecflow_variables' = node.ecflow
                /\ oo_variables' = node.oo
       ELSE /\ ecflow_variables' =
                   add_variables([variables |-> ecflow_variables],
                                 items).variables
            /\ UNCHANGED oo_variables
    /\ given' = Given(given, items)
    /\ ncalls' = ncalls + 1
    /\ UNCHANGED <<children, last_add, patched>>
    /\ UNCHANGED notNode

InitNode ==
    /\ NoCreate
    /\ NoRun
    /\ NoTable
    /\ NoDeploy
    /\ NoTwin
    /\ NoPath
    /\ NoClient
    /\ children = <<>>
    /\ last_add = <<>>
    /\ patched \in BOOLEAN
    /\ ecflow_variables = <<>>
    /\ oo_variables = <<>>
    /\ given = [k \in Keys |-> ""]
    /\ ncalls = 0
    /\ NoExpr
    /\ NoCall
    /\ NoBoot
    /\ NoTmpl
    /\ NoInc
    /\ NoPkg
    /\ NoFin

NextNode ==
    \/ \E name \in ChildNames, kind \in {"task", "family"} :
           AddChild(name, kind)
    \/ \E items \in Dicts : AddVariables(items)

SpecNode == InitNode /\ [][NextNode]_vars

C19_VariablesUpsert ==
    /\ \A a, b \in 1..Len(ecflow_variables) :
           ecflow_variables[a][1] = ecflow_variables[b][1] => a = b
    /\ \A a, b \in 1..Len(oo_variables) :
           oo_variables[a][1] = oo_variables[b][1] => a = b
    /\ \A key \in Keys :
           IF given[key] = "" THEN find_variable(key) = <<>>
           ELSE find_variable(key) = <<<<key, given[key]>>>>

C19_Witness ==
    /\ patched
    /\ given = [k \in Keys |-> IF k = "var1" THEN "value2" ELSE "value1"]
    /\ oo_variables = <<<<"var2", "value1">>, <<"var1", "value2">>>>
    /\ ncalls = 2
\* ---------------------------------------------------------------------
\* ooflow trigger expressions (workflow/comfies/ooflow.py): operands,
\* the Python operators that build expression trees, and ExprRenderer.
\* ---------------------------------------------------------------------

\* Operator applications per expression.
MaxOps == 2

\* Values of the int literals offered to the operators.
LiteralValues == {1, 2}

\* Nodes whose state a NodeState operand refers to.
StateNodes == {<<"s1", "f">>, <<"s1", "g", "f">>, <<"s2", "f">>}

\* Nodes a trigger expression is attached to; NullNode when unattached.
ParentNodes == {<<"s1", "g">>, NullNode}

\* A built-in Python int handed to an operator.
PyIntValue(value) == [kind |-> "int", int |-> value]

\* NumLiteral(value): value = str(value)
NumLiteral(value) == [kind |-> "NumLiteral", value |-> ToString(value)]

\* NullBool()
NullBool == [kind |-> "NullBool"]

\* node.complete: Completed(node), state 'complete', rank 4
Completed(node) == [kind |-> "Completed", node |-> node, state |-> "complete"]

\* BinBoolExpr.__init__(left, right) of class cls (Or, And)
BinBoolExpr(cls, left, right) == [kind |-> cls, left |-> left, right |-> right]

\* UnaryBoolExpr.__init__(operand) of class Not
Not(operand) == [kind |-> "Not", operand |-> operand]

\* BinNonBoolExpr.__init__(left, right) of class cls (relational, arithmetic)
BinNonBoolExpr(cls, left, right) == [kind |-> cls, left |-> left, right |-> right]

BinBoolClasses == {"Or", "And"}

RelationalClasses == {"Lt", "Gt", "Ge", "Le", "Eq", "Ne"}

ArithmeticClasses == {"Add", "Sub", "Mul", "Div", "Mod"}

\* class attribute rank; literals are visited with rank 99
rank(cls) ==
    CASE cls = "Or" -> 1
      [] cls = "And" -> 2
      [] cls = "Not" -> 3
      [] cls \in RelationalClasses \cup {"Add", "Sub", "Completed"} -> 4
      [] cls \in {"Mul", "Div", "Mod"} -> 5
      [] OTHER -> 99

\* class attribute symb
symb(cls) ==
    CASE cls = "Or" -> "or"
      [] cls = "And" -> "and"
      [] cls = "Not" -> "not"
      [] cls = "Lt" -> "<"
      [] cls = "Gt" -> ">"
      [] cls = "Ge" -> ">="
      [] cls = "Le" -> "<="
      [] cls = "Eq" -> "=="
      [] cls = "Ne" -> "!="
      [] cls = "Add" -> "+"
      [] cls = "Sub" -> "-"
      [] cls = "Mul" -> "*"
      [] cls = "Div" -> "/"
      [] cls = "Mod" -> "%"

\* isinstance(x, Bool): NullBool, NodeState, Or/And/Not, relational
IsBool(x) == x.kind \in {"NullBool", "Completed", "Not"} \cup BinBoolClasses \cup RelationalClasses

\* isinstance(x, Ordinal): NumLiteral and arithmetic expressions
IsOrdinal(x) == x.kind \in {"NumLiteral"} \cup ArithmeticClasses

\* _lit(x): a Python int becomes a NumLiteral
_lit(x) == IF x.kind = "int" THEN NumLiteral(x.int) ELSE x

\* A NullBool operand that builds the node like any other Bool.
op_and_building(self, other) == BinBoolExpr("And", other, self)

\* Bool.op_and / NullBool.op_and (double dispatch target of '&')
op_and(self, other) ==
    IF self.kind = "NullBool" THEN other
    ELSE BinBoolExpr("And", other, self)

\* Bool.op_or / NullBool.op_or (double dispatch target of '|')
op_or(self, other) ==
    IF self.kind = "NullBool" THEN other
    ELSE BinBoolExpr("Or", other, self)

\* self & other: NullBool.__and__ returns other, Bool.__and__ dispatches
__and__(self, other) ==
    IF self.kind = "NullBool" THEN other
    ELSE op_and(_lit(other), self)

\* self | other: NullBool.__or__ returns other, Bool.__or__ dispatches
__or__(self, other) ==
    IF self.kind = "NullBool" THEN other
    ELSE op_or(_lit(other), self)

\* ~self: NullBool.__invert__ returns self, Bool.__invert__ builds Not
__invert__(self) ==
    IF self.kind = "NullBool" THEN self
    ELSE Not(self)

\* Ordinal.op_lt .. op_mod: cls(other, self)
op_ordinal(cls, self, other) == BinNonBoolExpr(cls, other, self)

\* Ordinal.op_radd .. op_rmod: cls(self, other)
op_rordinal(cls, self, other) == BinNonBoolExpr(cls, self, other)

\* Ordinal.__lt__ .. __mod__: _lit(other).op_xxx(self)
ordinal_operator(cls, self, other) == op_ordinal(cls, _lit(other), self)

\* Ordinal.__radd__ .. __rmod__: _lit(other).op_rxxx(self)
ordinal_roperator(cls, self, other) == op_rordinal(cls, _lit(other), self)

\* One word of rendered text; the text is the words joined by blanks.
Sym(s) == [sym |-> s]

\* ExprRenderer.__init__(node)
ExprRenderer(node) == [text |-> <<>>, node |-> node, rank |-> 99]

\* '(' + text + ')' when the operand's rank is below the operator's
Parenthesised(visited, cls) ==
    IF visited.rank < rank(cls)
    THEN <<Sym("(")>> \o visited.text \o <<Sym(")")>>
    ELSE visited.text

\* NodeState.node_path_relto(other); NullNode.related_to is False
node_path_relto(e, other) ==
    IF other = NullNode THEN EmptyText
    ELSE path_relto(e.node, other)

RECURSIVE accept(_, _)

\* A binary boolean visit that keeps an empty operand in the text.
visit_bin_bool_expr_keeping(e, renderer) ==
    LET left == accept(e.left, renderer)
        right == accept(e.right, left)
    IN  [right EXCEPT
            !.text = Parenthesised(left, e.kind) \o <<Sym(symb(e.kind))>>
                        \o Parenthesised(right, e.kind),
            !.rank = rank(e.kind)]

\* ExprRenderer.visit_bin_bool_expr(expr)
visit_bin_bool_expr(e, renderer) ==
    LET left == accept(e.left, renderer)
        right == accept(e.right, left)
    IN  IF left.text = <<>> /\ right.text = <<>>
        THEN [right EXCEPT !.text = <<>>]
        ELSE IF left.text = <<>> THEN right
        ELSE IF right.text = <<>>
             THEN [right EXCEPT !.text = left.text, !.rank = left.rank]
        ELSE [right EXCEPT
                !.text = Parenthesised(left, e.kind) \o <<Sym(symb(e.kind))>>
                            \o Parenthesised(right, e.kind),
                !.rank = rank(e.kind)]

\* ExprRenderer.visit_bin_non_bool_expr(expr)
visit_bin_non_bool_expr(e, renderer) ==
    LET left == accept(e.left, renderer)
        right == accept(e.right, left)
    IN  IF left.text = <<>> \/ right.text = <<>>
        THEN [right EXCEPT !.text = <<>>]
        ELSE [right EXCEPT
                !.text = Parenthesised(left, e.kind) \o <<Sym(symb(e.kind))>>
                            \o Parenthesised(right, e.kind),
                !.rank = rank(e.kind)]

\* ExprRenderer.visit_unary_bool_expr(expr)
visit_unary_bool_expr(e, renderer) ==
    LET operand == accept(e.operand, renderer)
    IN  IF operand.text = <<>> THEN operand
        ELSE [operand EXCEPT
                !.text = <<Sym(symb(e.kind))>> \o Parenthesised(operand, e.kind),
                !.rank = rank(e.kind)]

\* ExprRenderer.visit_int_literal(integer)
visit_int_literal(e, renderer) ==
    [renderer EXCEPT !.text = <<Sym(e.value)>>, !.rank = 99]

\* ExprRenderer.visit_node_state(expr)
visit_node_state(e, renderer) ==
    LET target_path == node_path_relto(e, renderer.node)
    IN  IF target_path = EmptyText THEN [renderer EXCEPT !.text = <<>>]
        ELSE [renderer EXCEPT
                !.text = <<[path |-> target_path], Sym("=="), Sym(e.state)>>,
                !.rank = rank(e.kind)]

\* an event as an operand: the node that owns it (NullNode before it is
\* added to one) and its name
Event(node, name) == [kind |-> "Event", node |-> node, name |-> name]

\* KnowsOwner.parent_path_relto(other); NullNode.path_relto is ''
parent_path_relto(e, other) ==
    IF other = NullNode \/ e.node = NullNode THEN EmptyText
    ELSE path_relto(e.node, other)

visit_node_attr(e, renderer) ==
    LET target_path == parent_path_relto(e, renderer.node)
    IN  IF target_path = EmptyText THEN [renderer EXCEPT !.text = <<>>]
        ELSE [renderer EXCEPT
                !.text = <<[path |-> target_path, attr |-> e.name]>>,
                !.rank = 99]

\* operand.accept(visitor); NullBool.accept does nothing
accept(e, renderer) ==
    CASE e.kind = "NullBool" -> renderer
      [] e.kind \in BinBoolClasses -> visit_bin_bool_expr(e, renderer)
      [] e.kind \in RelationalClasses \cup ArithmeticClasses
            -> visit_bin_non_bool_expr(e, renderer)
      [] e.kind = "Not" -> visit_unary_bool_expr(e, renderer)
      [] e.kind = "NumLiteral" -> visit_int_literal(e, renderer)
      [] e.kind = "Completed" -> visit_node_state(e, renderer)
      [] e.kind = "Event" -> visit_node_attr(e, renderer)

\* Operand.text of an expression attached to node
Text(e, node) == accept(e, ExprRenderer(node)).text

\* The operands a caller hands to the operators.
BoolOperands == {NullBool} \cup {Completed(n) : n \in StateNodes}

OrdinalOperands == {NumLiteral(v) : v \in LiteralValues} \cup {PyIntValue(v) : v \in LiteralValues}

\* expr = operand
NewOperand(x) ==
    /\ nops >= 0
    /\ x.kind # "int"
    /\ expr' = x
    /\ applied' = [op |-> "none"]
    /\ rendered' = [done |-> FALSE]
    /\ nops' = 0
    /\ UNCHANGED notExpr

\* result of one operator application replaces expr
Applied(op, left, right, result) ==
    /\ nops >= 0
    /\ nops < MaxOps
    /\ expr' = result
    /\ applied' = [op |-> op, left |-> left, right |-> right, result |-> result]
    /\ rendered' = [done |-> FALSE]
    /\ nops' = nops + 1
    /\ UNCHANGED notExpr

\* expr = expr & y, expr = y & expr
ApplyAnd(y, swap) ==
    /\ IsBool(expr)
    /\ IF swap THEN Applied("&", y, expr, __and__(y, expr))
       ELSE Applied("&", expr, y, __and__(expr, y))

\* expr = expr | y, expr = y | expr
ApplyOr(y, swap) ==
    /\ IsBool(expr)
    /\ IF swap THEN Applied("|", y, expr, __or__(y, expr))
       ELSE Applied("|", expr, y, __or__(expr, y))

\* expr = ~expr
ApplyInvert ==
    /\ IsBool(expr)
    /\ Applied("~", expr, expr, __invert__(expr))

\* expr = expr <op> y for a relational or arithmetic operator;
\* y <op> expr with a Python int y runs expr's reflected operator
ApplyOrdinal(cls, y, swap) ==
    /\ IsOrdinal(expr)
    /\ IF ~swap THEN Applied(symb(cls), expr, y, ordinal_operator(cls, expr, y))
       ELSE /\ cls \in ArithmeticClasses
            /\ IF y.kind = "int"
               THEN Applied(symb(cls), y, expr, ordinal_roperator(cls, expr, y))
               ELSE Applied(symb(cls), y, expr, ordinal_operator(cls, y, expr))

\* trigger attached to node; text = expr.text
Render(node) ==
    /\ nops >= 0
    /\ ~rendered.done
    /\ rendered' = [done |-> TRUE] @@ accept(expr, ExprRenderer(node))
    /\ UNCHANGED <<expr, applied, nops>>
    /\ UNCHANGED notExpr

InitExpr ==
    /\ NoCreate
    /\ NoRun
    /\ NoTable
    /\ NoDeploy
    /\ NoTwin
    /\ NoPath
    /\ NoClient
    /\ NoNode
    /\ expr \in BoolOperands \cup {NumLiteral(v) : v \in LiteralValues}
    /\ applied = [op |-> "none"]
    /\ rendered = [done |-> FALSE]
    /\ nops = 0
    /\ NoCall
    /\ NoBoot
    /\ NoTmpl
    /\ NoInc
    /\ NoPkg
    /\ NoFin

NextExpr ==
    \/ \E x \in BoolOperands \cup OrdinalOperands : NewOperand(x)
    \/ \E y \in BoolOperands, swap \in BOOLEAN : ApplyAnd(y, swap)
    \/ \E y \in BoolOperands, swap \in BOOLEAN : ApplyOr(y, swap)
    \/ ApplyInvert
    \/ \E cls \in RelationalClasses \cup ArithmeticClasses, y \in OrdinalOperands, swap \in BOOLEAN : ApplyOrdinal(cls, y, swap)
    \/ \E node \in ParentNodes : Render(node)

SpecExpr == InitExpr /\ [][NextExpr]_vars

\* C14: for every boolean expression x, NullBool() & x, x & NullBool(),
\* NullBool() | x and x | NullBool() return x itself, so no And/Or node
\* is built, and ~NullBool() returns the NullBool.
C14_NullBoolAbsorbed ==
    /\ applied.op \in {"&", "|"} /\ applied.left = NullBool
        => applied.result = applied.right
    /\ applied.op \in {"&", "|"} /\ applied.right = NullBool
        => applied.result = applied.left
    /\ applied.op = "~" /\ applied.left = NullBool
        => applied.result = NullBool

\* A composite boolean expression met a NullBool under & or |.
C14_Witness ==
    /\ applied.op \in {"&", "|"}
    /\ applied.right = NullBool
    /\ applied.left.kind \in BinBoolClasses \cup {"Not"}
    /\ expr = applied.left

\* The node of a node-state operand shares no ancestor with the node the
\* expression is attached to.
Unrelated(e, node) ==
    /\ e.kind = "Completed"
    /\ node # NullNode
    /\ mrca(e.node, node) = NullNode

\* C15: a node-state comparison whose node has no common ancestor with the
\* node the expression is attached to renders as the empty string, and as
\* an operand of and/or it disappears: the text is exactly the rendering of
\* the other operand, which is empty when both operands are empty.
C15_UnrelatedStateRendersEmpty ==
    rendered.done =>
        /\ Unrelated(expr, rendered.node) => rendered.text = <<>>
        /\ expr.kind \in BinBoolClasses /\ Unrelated(expr.left, rendered.node)
            => rendered.text = Text(expr.right, rendered.node)
        /\ expr.kind \in BinBoolClasses /\ Unrelated(expr.right, rendered.node)
            => rendered.text = Text(expr.left, rendered.node)

\* An and/or with an unrelated node state on the left and a related one on
\* the right was rendered: only the right operand is left in the text.
C15_Witness ==
    /\ rendered.done
    /\ expr.kind \in BinBoolClasses
    /\ Unrelated(expr.left, rendered.node)
    /\ expr.right.kind = "Completed"
    /\ rendered.text # <<>>

\* Nodes that are complete when the rendered text is read.
CompleteNodes == {<<"s1", "f">>}

NodeStatus(node) == IF node \in CompleteNodes THEN "complete" ELSE "queued"

\* The number a numeral stands for.
NumeralValue(s) == CHOOSE v \in 0..9 : ToString(v) = s

\* What an operator computes, truth values being 1 and 0.
Meaning(s, l, r) ==
    CASE s = "or" -> IF l = 1 \/ r = 1 THEN 1 ELSE 0
      [] s = "and" -> IF l = 1 /\ r = 1 THEN 1 ELSE 0
      [] s = "<" -> IF l < r THEN 1 ELSE 0
      [] s = ">" -> IF l > r THEN 1 ELSE 0
      [] s = ">=" -> IF l >= r THEN 1 ELSE 0
      [] s = "<=" -> IF l <= r THEN 1 ELSE 0
      [] s = "==" -> IF l = r THEN 1 ELSE 0
      [] s = "!=" -> IF l # r THEN 1 ELSE 0
      [] s = "+" -> l + r
      [] s = "-" -> l - r
      [] s = "*" -> l * r
      [] s = "/" -> IF r > 0 THEN l \div r ELSE 0
      [] s = "%" -> IF r > 0 THEN l % r ELSE 0

RECURSIVE Eval(_)

\* The meaning of an expression tree.
Eval(e) ==
    CASE e.kind = "NumLiteral" -> NumeralValue(e.value)
      [] e.kind = "Completed" -> IF NodeStatus(e.node) = e.state THEN 1 ELSE 0
      [] e.kind = "Not" -> 1 - Eval(e.operand)
      [] OTHER -> Meaning(symb(e.kind), Eval(e.left), Eval(e.right))

RECURSIVE RendersWhole(_, _)

\* No operand of the expression renders as the empty string.
RendersWhole(e, node) ==
    CASE e.kind = "NullBool" -> FALSE
      [] e.kind = "NumLiteral" -> TRUE
      [] e.kind = "Completed" -> node # NullNode /\ mrca(e.node, node) # NullNode
      [] e.kind = "Not" -> RendersWhole(e.operand, node)
      [] OTHER -> RendersWhole(e.left, node) /\ RendersWhole(e.right, node)

\* The precedence ladder the text is read with: or < and < not <
\* relational < additive < multiplicative.
ReadRank(s) ==
    CASE s = "or" -> 1
      [] s = "and" -> 2
      [] s = "not" -> 3
      [] s \in {"<", ">", ">=", "<=", "==", "!="} -> 4
      [] s \in {"+", "-"} -> 5
      [] s \in {"*", "/", "%"} -> 6

IsBinary(tok) == "sym" \in DOMAIN tok /\ tok.sym \notin {"(", ")", "not", "complete"} /\ tok.sym \notin {ToString(v) : v \in 0..9}

\* Open parentheses before word i.
ParenDepth(t, i) == Cardinality({k \in 1..(i - 1) : t[k] = Sym("(")}) - Cardinality({k \in 1..(i - 1) : t[k] = Sym(")")})

\* Binary operators outside every parenthesis.
TopOps(t) == {i \in 1..Len(t) : IsBinary(t[i]) /\ ParenDepth(t, i) = 0}

\* The operator applied last: lowest on the ladder, rightmost among equals,
\* operators of one step grouping from the left.
LastOp(t) ==
    CHOOSE i \in TopOps(t) : \A j \in TopOps(t) :
        \/ ReadRank(t[i].sym) < ReadRank(t[j].sym)
        \/ ReadRank(t[i].sym) = ReadRank(t[j].sym) /\ i >= j

RECURSIVE Read(_, _)

\* The meaning of rendered text standing in a trigger of node.
Read(t, node) ==
    IF Len(t) = 1 THEN NumeralValue(t[1].sym)
    ELSE IF Len(t) = 3 /\ "path" \in DOMAIN t[1]
         THEN IF \E n \in Designated(t[1].path, node) : NodeStatus(n) = t[3].sym
              THEN 1 ELSE 0
    ELSE IF TopOps(t) # {} /\ (t[1] # Sym("not") \/ \E i \in TopOps(t) : ReadRank(t[i].sym) < ReadRank("not"))
         THEN Meaning(t[LastOp(t)].sym, Read(SubSeq(t, 1, LastOp(t) - 1), node), Read(SubSeq(t, LastOp(t) + 1, Len(t)), node))
    ELSE IF t[1] = Sym("not") THEN 1 - Read(Tail(t), node)
    ELSE Read(SubSeq(t, 2, Len(t) - 1), node)

\* C16: for every expression built with the ooflow operators, the rendered
\* text, read with the precedence ladder, has the same meaning as the
\* expression tree it was rendered from.
C16_RenderedTextKeepsMeaning ==
    rendered.done /\ RendersWhole(expr, rendered.node)
        => Read(rendered.text, rendered.node) = Eval(expr)

\* ---------------------------------------------------------------------
\* client.py: ping, add_definition and begin, statement by statement,
\* every call on the ecFlow client returning or raising RuntimeError.
\* ---------------------------------------------------------------------

ClientFunctions == {"ping", "add_definition", "begin"}

\* str(e) of the RuntimeError a client call raises
Messages == {"test", "connection refused"}

\* what a call on the ecFlow client does: return, or raise RuntimeError(msg)
Outcomes == {[raised |-> FALSE, msg |-> ""]} \cup {[raised |-> TRUE, msg |-> m] : m \in Messages}

\* an except clause that lets the error through
ExceptNothing(error) == FALSE

\* except RuntimeError as e
ExceptRuntimeError(error) == error.raised

\* One statement of a try block: the call returns and the function goes on
\* to next, or it raises and the handler prints prefix and str(e) and the
\* function goes on to after; an error no clause catches leaves the function.
Try(name, outcome, lines, next, prefix, after) ==
    /\ ccalls' = Append(ccalls, [name |-> name, raised |-> outcome.raised])
    /\ IF ~outcome.raised
       THEN /\ fpc' = next
            /\ printed' = printed \o lines
            /\ UNCHANGED escaped
       ELSE IF ExceptRuntimeError(outcome)
       THEN /\ fpc' = after
            /\ printed' = Append(printed, prefix \o " " \o outcome.msg)
            /\ UNCHANGED escaped
       ELSE /\ fpc' = "done"
            /\ escaped' = TRUE
            /\ UNCHANGED printed
    /\ UNCHANGED fn
    /\ UNCHANGED notCall

\* where the caller of ping goes on after ping returned
AfterPing == IF fn = "ping" THEN "done" ELSE "client"

\* ping: ci = Client(host_port)
PingClient ==
    /\ fpc = "ping_client"
    /\ \E outcome \in Outcomes : Try("Client", outcome, <<>>, "ping", "ping failed:", AfterPing)

\* ping: ci.ping()
PingServer ==
    /\ fpc = "ping"
    /\ \E outcome \in Outcomes : Try("ping", outcome, <<>>, AfterPing, "ping failed:", AfterPing)

\* add_definition, begin: ci = Client(host_port); add_definition prints
\* the loading line before it, begin prints its line after it
NewClient ==
    /\ fpc = "client"
    /\ printed' = IF fn = "add_definition" THEN Append(printed, "Loading") ELSE printed
    /\ fpc' = "client_made"
    /\ UNCHANGED <<fn, ccalls, escaped>>
    /\ UNCHANGED notCall

ClientMade ==
    /\ fpc = "client_made"
    /\ \E outcome \in Outcomes :
        IF fn = "add_definition"
        THEN Try("Client", outcome, <<>>, "sync_local", "Failed:", "done")
        ELSE Try("Client", outcome, <<"Begin">>, "begin_suite", "Failed:", "done")

\* add_definition: ci.sync_local()
AddSyncLocal ==
    /\ fpc = "sync_local"
    /\ \E outcome \in Outcomes : Try("sync_local", outcome, <<>>, "get_defs", "Failed:", "done")

\* add_definition: defs = ci.get_defs(), and the line printed for it
AddGetDefs ==
    /\ fpc = "get_defs"
    /\ \E outcome \in Outcomes, line \in {"No definition in server, loading definition.", "Reload definition."} :
        Try("get_defs", outcome, <<line>>, IF line = "Reload definition." THEN "replace" ELSE "load", "Failed:", "done")

\* add_definition: ci.load(definition) or ci.replace(name, definition)
AddLoad ==
    /\ fpc \in {"load", "replace"}
    /\ \E outcome \in Outcomes : Try(fpc, outcome, <<"Restarting the server.">>, "restart_server", "Failed:", "done")

\* add_definition: ci.restart_server()
AddRestart ==
    /\ fpc = "restart_server"
    /\ \E outcome \in Outcomes : Try("restart_server", outcome, <<>>, "done", "Failed:", "done")

\* begin: ci.begin_suite(name)
BeginSuite ==
    /\ fpc = "begin_suite"
    /\ \E outcome \in Outcomes : Try("begin_suite", outcome, <<>>, "done", "Failed:", "done")

InitCall ==
    /\ NoCreate
    /\ NoRun
    /\ NoTable
    /\ NoDeploy
    /\ NoTwin
    /\ NoPath
    /\ NoClient
    /\ NoNode
    /\ NoExpr
    /\ fn \in ClientFunctions
    /\ fpc = "ping_client"
    /\ ccalls = <<>>
    /\ printed = <<>>
    /\ escaped = FALSE
    /\ NoBoot
    /\ NoTmpl
    /\ NoInc
    /\ NoPkg
    /\ NoFin

NextCall ==
    \/ PingClient
    \/ PingServer
    \/ NewClient
    \/ ClientMade
    \/ AddSyncLocal
    \/ AddGetDefs
    \/ AddLoad
    \/ AddRestart
    \/ BeginSuite

SpecCall == InitCall /\ [][NextCall]_vars

\* the client calls that raised, and the lines that report an error
RaisedCalls == SelectSeq(ccalls, LAMBDA c : c.raised)

ReportLines == {p \o " " \o m : p \in {"ping failed:", "Failed:"}, m \in Messages}

Reports == SelectSeq(printed, LAMBDA l : l \in ReportLines)

\* the calls made inside ping
InPing(k) == k = 1 \/ (k = 2 /\ ccalls[2].name = "ping")

\* C21: ping, add_definition and begin never let a RuntimeError of the
\* ecFlow client leave the function: each raised call is reported, as
\* 'ping failed: <msg>' inside ping and as 'Failed: <msg>' elsewhere, and
\* after a failed ping add_definition and begin still go on to their own
\* client calls.
C21_RuntimeErrorCaughtAndReported ==
    /\ ~escaped
    /\ Len(Reports) = Len(RaisedCalls)
    /\ \A k \in 1..Len(ccalls) : ccalls[k].raised =>
        LET n == Cardinality({j \in 1..k : ccalls[j].raised})
        IN  Reports[n] \in {(IF InPing(k) THEN "ping failed:" ELSE "Failed:") \o " " \o m : m \in Messages}
    /\ fpc = "done" /\ fn # "ping" => \E k \in 1..Len(ccalls) : ~InPing(k)

\* add_definition or begin finished with a failed ping behind it.
C21_Witness ==
    /\ fpc = "done"
    /\ fn \in {"add_definition", "begin"}
    /\ \E k \in 1..Len(ccalls) : InPing(k) /\ ccalls[k].raised
    /\ \E k \in 1..Len(ccalls) : ~InPing(k) /\ ccalls[k].raised

\* ---------------------------------------------------------------------
\* utils.py: prepare_dir_structure and create_symlinks_for_family_tasks
\* as create calls them, on a workspace that may already hold files.
\* ---------------------------------------------------------------------

ecflow_home == "/home"

suite_logs == "/logs"

Dir == [kind |-> "dir"]

File(text) == [kind |-> "file", text |-> text]

Link(src) == [kind |-> "link", to |-> src]

\* os.path.exists(path): a symbolic link counts when its target is there
exists(fsys, path) ==
    /\ path \in DOMAIN fsys
    /\ fsys[path].kind = "link" => fsys[path].to \in DOMAIN fsys

\* the file system with path holding entry
Put(fsys, path, entry) == [q \in DOMAIN fsys \cup {path} |-> IF q = path THEN entry ELSE fsys[q]]

\* if not os.path.exists(path): os.makedirs(path), for path and the
\* directories above it that are missing
makedirs(fsys, paths) ==
    IF exists(fsys, paths[Len(paths)]) THEN fsys
    ELSE [q \in DOMAIN fsys \cup {paths[k] : k \in 1..Len(paths)} |-> IF q \in DOMAIN fsys THEN fsys[q] ELSE Dir]

\* config["ecflow_entities"]["task"]: the configured task names
TaskNamesOf(rapid) == <<config.prep_task_name, config.esri_table_task_name, config.day_one_task_name, rapid, config.init_flows_task_name, config.nc_to_zarr_task_name, config.aws_task_name>>

\* config["ecflow_entities"]["family"]: the configured family names
FamilyNames == <<config.rapid_family_name, config.init_flows_family_name, config.esri_table_family_name, config.nc_to_zarr_family_name, config.aws_family_name, config.day_one_family_name>>

SuitePath == PathJoin(ecflow_home, config.suite_name)

FamilyPath(family) == PathJoin(SuitePath, family)

\* os.path.join(workspace, task["suite"], f"{task['name']}.ecf")
TaskPath(task) == PathJoin(SuitePath, task \o ".ecf")

\* the three lines prepare_dir_structure writes to a task file
EcfText == "%include <head.h> python %VARS% %include <tail.h>"

\* open(path, "w") and the writes: a symbolic link is written through
open_w(fsys, path, text) ==
    IF path \in DOMAIN fsys /\ fsys[path].kind = "link"
    THEN Put(fsys, fsys[path].to, File(text))
    ELSE Put(fsys, path, File(text))

RECURSIVE WriteTasks(_, _)

\* the loop over the task entities: written only where nothing exists
WriteTasks(fsys, tasks) ==
    IF tasks = <<>> THEN fsys
    ELSE WriteTasks(IF exists(fsys, TaskPath(Head(tasks))) THEN fsys
                    ELSE open_w(fsys, TaskPath(Head(tasks)), EcfText),
                    Tail(tasks))

RECURSIVE MakeFamilies(_, _)

\* the loop over the family entities
MakeFamilies(fsys, families) ==
    IF families = <<>> THEN fsys
    ELSE MakeFamilies(makedirs(fsys, <<SuitePath, FamilyPath(Head(families))>>), Tail(families))

\* prepare_dir_structure(python_exec, workspace, entities, suite_logs);
\* head.h and tail.h are copied over whatever is there
prepare_dir_structure(fsys, rapid) ==
    LET suite == makedirs(makedirs(fsys, <<SuitePath>>), <<suite_logs>>)
        families == MakeFamilies(suite, FamilyNames)
        tasks == WriteTasks(families, TaskNamesOf(rapid))
    IN  Put(Put(tasks, PathJoin(ecflow_home, "head.h"), File("head")), PathJoin(ecflow_home, "tail.h"), File("tail"))

\* the link names create_symlinks_for_tasks makes for one task, in order
LinkNames(task, vpus) ==
    IF task = "rapid_forecast_task"
    THEN [k \in 1..(Len(vpus) * NumEnsembles) |->
            EnsTaskName(task, vpus[((k - 1) \div NumEnsembles) + 1], NumEnsembles - ((k - 1) % NumEnsembles))]
    ELSE [k \in 1..Len(vpus) |-> VpuTaskName(task, vpus[k])]

\* os.symlink(src, dest) whatever is at dest
symlink_replacing(fsys, src, dest) == Link(src)

\* if not os.path.exists(dest): os.symlink(src, dest): what dest holds
\* afterwards
symlink_if_absent(fsys, src, dest) == IF dest \in DOMAIN fsys THEN fsys[dest] ELSE Link(src)

\* create_symlinks_for_tasks(workspace, suite, task, family, vpu_list):
\* the loop runs over the link names in order and ends at the first
\* destination that is a link with a missing target, where os.symlink
\* raises FileExistsError
create_symlinks_for_tasks(state, task, family, vpus) ==
    LET names == LinkNames(task, vpus)
        dest(k) == PathJoin(FamilyPath(family), names[k] \o ".ecf")
        blocked == {k \in 1..Len(names) : dest(k) \in DOMAIN state.fs /\ ~exists(state.fs, dest(k))}
        stop == IF blocked = {} THEN Len(names) + 1 ELSE CHOOSE k \in blocked : \A m \in blocked : k <= m
        reached == {dest(k) : k \in 1..(stop - 1)}
    IN  IF state.error # "" THEN state
        ELSE [fs |-> [q \in DOMAIN state.fs \cup reached |->
                        IF q \in reached THEN symlink_if_absent(state.fs, TaskPath(task), q) ELSE state.fs[q]],
              error |-> IF blocked = {} THEN "" ELSE "FileExistsError"]

\* task_family_list of create
TaskFamilyList(rapid) ==
    << <<rapid, config.rapid_family_name>>,
       <<config.init_flows_task_name, config.init_flows_family_name>>,
       <<config.esri_table_task_name, config.esri_table_family_name>>,
       <<config.nc_to_zarr_task_name, config.nc_to_zarr_family_name>>,
       <<config.day_one_task_name, config.day_one_family_name>>,
       <<config.aws_task_name, config.aws_family_name>> >>

RECURSIVE create_symlinks_for_family_tasks(_, _, _)

\* create_symlinks_for_family_tasks(ecflow_home, ecflow_suite, task_family, vpu_list)
create_symlinks_for_family_tasks(state, task_family, vpus) ==
    IF task_family = <<>> THEN state
    ELSE create_symlinks_for_family_tasks(
            create_symlinks_for_tasks(state, Head(task_family)[1], Head(task_family)[2], vpus),
            Tail(task_family), vpus)

\* create: prepare_dir_structure(...)
PrepareDirStructure ==
    /\ bpos = "prepare"
    /\ fs' = prepare_dir_structure(fs, rapid_name)
    /\ bpos' = "symlinks"
    /\ UNCHANGED <<rapid_name, boot_vpus, boot_error, boot_runs>>
    /\ UNCHANGED notBoot

\* create: create_symlinks_for_family_tasks(...)
CreateSymlinks ==
    /\ bpos = "symlinks"
    /\ \E state \in {create_symlinks_for_family_tasks([fs |-> fs, error |-> ""], TaskFamilyList(rapid_name), boot_vpus)} :
        /\ fs' = state.fs
        /\ boot_error' = state.error
    /\ bpos' = "define"
    /\ UNCHANGED <<rapid_name, boot_vpus, boot_runs>>
    /\ UNCHANGED notBoot

\* create is run again with the same configuration
CreateAgain ==
    /\ bpos = "define"
    /\ boot_runs < MaxRuns
    /\ bpos' = "prepare"
    /\ boot_error' = ""
    /\ boot_runs' = boot_runs + 1
    /\ UNCHANGED <<fs, rapid_name, boot_vpus>>
    /\ UNCHANGED notBoot

\* what the workspace may hold before the first run: nothing, or the suite
\* tree with one foreign entry where create would put a task file or a link
EmptyWorkspace == [q \in {ecflow_home} |-> Dir]

ForeignEntries == {File("edited by hand"), Link("/elsewhere/script.ecf"), Link(PathJoin(ecflow_home, "head.h"))}

Workspaces(rapid, vpus) ==
    {EmptyWorkspace, makedirs(EmptyWorkspace, <<SuitePath>>)}
    \cup {Put(MakeFamilies(EmptyWorkspace, FamilyNames), p, entry) :
            p \in {TaskPath(config.aws_task_name)}
                  \cup {PathJoin(FamilyPath(config.aws_family_name), VpuTaskName(config.aws_task_name, v) \o ".ecf") : v \in {vpus[k] : k \in 1..Len(vpus)}}
                  \cup {PathJoin(FamilyPath(config.rapid_family_name), EnsTaskName(rapid, v, 1) \o ".ecf") : v \in {vpus[k] : k \in 1..Len(vpus)}},
            entry \in ForeignEntries}

InitBoot ==
    /\ NoCreate
    /\ NoRun
    /\ NoTable
    /\ NoDeploy
    /\ NoTwin
    /\ NoPath
    /\ NoClient
    /\ NoNode
    /\ NoExpr
    /\ NoCall
    /\ rapid_name \in {"rapid_forecast_task", config.rapid_task_name}
    /\ boot_vpus \in VpuLists
    /\ fs \in Workspaces(rapid_name, boot_vpus)
    /\ bpos = "prepare"
    /\ boot_error = ""
    /\ boot_runs = 1
    /\ NoTmpl
    /\ NoInc
    /\ NoPkg
    /\ NoFin

NextBoot ==
    \/ PrepareDirStructure
    \/ CreateSymlinks
    \/ CreateAgain

SpecBoot == InitBoot /\ [][NextBoot]_vars

\* the paths the two functions guard with os.path.exists
GuardedPaths ==
    {SuitePath, suite_logs}
    \cup {FamilyPath(FamilyNames[k]) : k \in 1..Len(FamilyNames)}
    \cup {TaskPath(TaskNamesOf(rapid_name)[k]) : k \in 1..Len(TaskNamesOf(rapid_name))}
    \cup UNION {{PathJoin(FamilyPath(TaskFamilyList(rapid_name)[k][2]), LinkNames(TaskFamilyList(rapid_name)[k][1], boot_vpus)[n] \o ".ecf") :
                    n \in 1..Len(LinkNames(TaskFamilyList(rapid_name)[k][1], boot_vpus))} :
                k \in 1..Len(TaskFamilyList(rapid_name))}

\* C22: prepare_dir_structure and create_symlinks_for_tasks never replace
\* an existing suite or family directory, task file or link destination,
\* be it a link or a regular file: no step of create changes a guarded path
\* that is there, so a second run leaves them as the first run left them.
C22_ExistingPathsKept ==
    [][\A p \in GuardedPaths \cap DOMAIN fs : p \in DOMAIN fs' /\ fs'[p] = fs[p]]_vars

\* A second run went over a workspace where a link destination had been
\* a regular file before the first run, and over the links the first made.
C22_Witness ==
    /\ boot_runs = 2
    /\ bpos = "define"
    /\ \E p \in GuardedPaths \cap DOMAIN fs : fs[p] = File("edited by hand")
    /\ \E p \in GuardedPaths \cap DOMAIN fs : fs[p].kind = "link" /\ fs[p].to = TaskPath(config.aws_task_name)

\* the families create adds to the suite for a rapid task name and a VPU
\* list (geoglows_forecast_job.py:367-431)
FamiliesOf(rapid, vpus) ==
    << create_rapid_run_family(config.rapid_family_name, rapid, vpus, config.prep_task_name, config.rapid_exec, config.rapid_exec_dir, config.rapid_subprocess_dir, FALSE, NumEnsembles),
       create_init_flows_family(config.init_flows_family_name, config.init_flows_task_name, vpus, config.rapid_family_name, FALSE),
       create_esri_table_family(config.esri_table_family_name, config.esri_table_task_name, vpus, config.nces_exec, config.init_flows_family_name, FALSE),
       create_nc_to_zarr_family(config.nc_to_zarr_family_name, config.nc_to_zarr_task_name, vpus, config.esri_table_family_name, FALSE),
       create_day_one_family(config.day_one_family_name, config.day_one_task_name, vpus, config.forecast_records_dir, config.nc_to_zarr_family_name, FALSE),
       create_aws_family(config.aws_family_name, config.aws_task_name, vpus, config.aws_config, config.day_one_family_name, FALSE) >>

\* the script the scheduler looks up for a task of a family
ScriptOf(family, task) == PathJoin(FamilyPath(family.name), task.name \o ".ecf")

\* C23: once create_symlinks_for_family_tasks has run, every task create
\* adds to a family has a script link of exactly its name in the family's
\* directory, whatever the configured task names are.
C23_EveryFamilyTaskHasLink ==
    bpos = "define" /\ boot_error = "" =>
        \A n \in 1..Len(FamiliesOf(rapid_name, boot_vpus)) :
            LET family == FamiliesOf(rapid_name, boot_vpus)[n]
            IN  \A k \in 1..Len(family.tasks) : ScriptOf(family, family.tasks[k]) \in DOMAIN fs

\* ---------------------------------------------------------------------
\* sdeploy with dry_run and with params_values.
\* ---------------------------------------------------------------------

\* C24: with dry_run true no step of sdeploy (definition file, task
\* scripts, include files, task.cfg, config copy) calls a file writer or
\* creates a directory: nothing is written to the target and no directory
\* is made, whichever step the run has reached.
C24_DryRunWritesNothing ==
    dry_run => written = {} /\ made_dirs = {}

\* a dry run of the whole suite that built it, resolved its scripts and
\* include files and went through every step to the end
C24_Witness ==
    /\ dry_run
    /\ dpc = "complete"
    /\ target_files = {}
    /\ task_section
    /\ find_scripts(RemainingTargets(target_files)).scripts = SuiteScripts
    /\ written = {}

\* C25: with a non-empty params_values the deployment does not end on
\* the parameters themselves, config.get(param) gives the builder the
\* value passed for every param of params_values, and every other
\* parameter keeps the value read from the config file.
C25_ParamsOverrideAndComplete ==
    DOMAIN params_values # {} =>
        /\ derror # <<"ValueError">>
        /\ dconfig # <<>> =>
             /\ \A param \in DOMAIN params_values :
                    Config_get(dconfig, param) = params_values[param]
             /\ \A keys \in DOMAIN FileConfig :
                    keys \notin {split(param) : param \in DOMAIN params_values}
                        => dconfig[keys] = FileConfig[keys]

\* ---------------------------------------------------------------------
\* TemplateProcessor._process (workflow/comfies/templating.py).
\* ---------------------------------------------------------------------

MaxChars == 4

\* the characters of the delimiters and one other character
Alphabet == {"<", ">", "!", "?", "&", "x"}

\* self._tokens with the default delimiters
Tokens ==
    [tokstr \in {"<!", "!>", "<?", "?>", "<&", "&>", "EOF"} |->
        CASE tokstr = "<!" -> "lx"
          [] tokstr = "!>" -> "rx"
          [] tokstr = "<?" -> "le"
          [] tokstr = "?>" -> "re"
          [] tokstr = "<&" -> "li"
          [] tokstr = "&>" -> "ri"
          [] OTHER -> "EOF"]

\* next(it).group(0) for the pattern 'delimiters|.': the delimiter that
\* starts at the position, else the character there, 'EOF' at the end
tokstr_at(text, i) ==
    IF i > Len(text) THEN "EOF"
    ELSE IF i < Len(text) /\ text[i] \o text[i + 1] \in DOMAIN Tokens \ {"EOF"}
         THEN text[i] \o text[i + 1]
         ELSE text[i]

\* self._tokens.get(tokstr, 'char')
token_of(tokstr) ==
    IF tokstr \in DOMAIN Tokens THEN Tokens[tokstr] ELSE "char"

\* the iterator after the token
advance(text, i) ==
    IF i > Len(text) THEN i ELSE i + Len(tokstr_at(text, i))

\* raise TemplateError('unexpected ...'), the end of the loop body
unexpected ==
    /\ perror' = <<"TemplateError">>
    /\ UNCHANGED <<pstate, output, expression_buf, statements, include, returned>>

\* _raise_template_error: the exception is perror again as its own class
raise_template_error(e) ==
    /\ perror' = <<e>>
    /\ UNCHANGED <<pstate, output, expression_buf, statements, include, returned>>

\* the classes of exception an embedded snippet or the include reader
\* can raise
SnippetErrors == {"NameError", "FileNotFoundError"}

\* if state == 'verbatim', with closing delimiters taken as characters
StateVerbatimLenient ==
    /\ pstate = "verbatim" /\ perror = <<>> /\ returned = <<>>
    /\ \E tokstr \in {tokstr_at(template, it)} :
       \E token \in {token_of(tokstr)} :
           /\ it' = advance(template, it)
           /\ CASE token \in {"char", "rx", "re", "ri"} ->
                     /\ output' = output \o tokstr
                     /\ UNCHANGED <<pstate, returned, perror>>
                [] token \in {"le", "lx", "li"} ->
                     /\ pstate' = (CASE token = "le" -> "eval"
                                     [] token = "lx" -> "exec"
                                     [] OTHER -> "include")
                     /\ UNCHANGED <<output, returned, perror>>
                [] OTHER ->
                     /\ returned' = <<output>>
                     /\ UNCHANGED <<pstate, output, perror>>
           /\ UNCHANGED <<expression_buf, statements, include>>
    /\ UNCHANGED template
    /\ UNCHANGED notTmpl

\* if state == 'verbatim'
StateVerbatim ==
    /\ pstate = "verbatim" /\ perror = <<>> /\ returned = <<>>
    /\ \E tokstr \in {tokstr_at(template, it)} :
       \E token \in {token_of(tokstr)} :
           /\ it' = advance(template, it)
           /\ CASE token = "char" ->
                     /\ output' = output \o tokstr
                     /\ UNCHANGED <<pstate, returned, perror>>
                     /\ UNCHANGED <<expression_buf, statements, include>>
                [] token \in {"le", "lx", "li"} ->
                     /\ pstate' = (CASE token = "le" -> "eval"
                                     [] token = "lx" -> "exec"
                                     [] OTHER -> "include")
                     /\ UNCHANGED <<output, returned, perror>>
                     /\ UNCHANGED <<expression_buf, statements, include>>
                [] token = "EOF" ->
                     /\ returned' = <<output>>
                     /\ UNCHANGED <<pstate, output, perror>>
                     /\ UNCHANGED <<expression_buf, statements, include>>
                [] OTHER -> unexpected
    /\ UNCHANGED template
    /\ UNCHANGED notTmpl

\* if state == 'eval': output += str(eval(expression, ...))
StateEval ==
    /\ pstate = "eval" /\ perror = <<>> /\ returned = <<>>
    /\ \E tokstr \in {tokstr_at(template, it)} :
       \E token \in {token_of(tokstr)} :
           /\ it' = advance(template, it)
           /\ CASE token = "char" ->
                     /\ expression_buf' = expression_buf \o tokstr
                     /\ UNCHANGED <<pstate, output, statements, include,
                                    perror, returned>>
                [] token = "re" ->
                     \/ \E e \in SnippetErrors : raise_template_error(e)
                     \/ /\ output' = output \o "{" \o expression_buf \o "}"
                        /\ expression_buf' = ""
                        /\ pstate' = "verbatim"
                        /\ UNCHANGED <<statements, include, perror, returned>>
                [] OTHER -> unexpected
    /\ UNCHANGED template
    /\ UNCHANGED notTmpl

\* if state == 'exec': exec(statements, ...)
StateExec ==
    /\ pstate = "exec" /\ perror = <<>> /\ returned = <<>>
    /\ \E tokstr \in {tokstr_at(template, it)} :
       \E token \in {token_of(tokstr)} :
           /\ it' = advance(template, it)
           /\ CASE token = "char" ->
                     /\ statements' = statements \o tokstr
                     /\ UNCHANGED <<pstate, output, expression_buf, include,
                                    perror, returned>>
                [] token = "rx" ->
                     \/ \E e \in SnippetErrors : raise_template_error(e)
                     \/ /\ statements' = ""
                        /\ pstate' = "verbatim"
                        /\ UNCHANGED <<output, expression_buf, include,
                                       perror, returned>>
                [] OTHER -> unexpected
    /\ UNCHANGED template
    /\ UNCHANGED notTmpl

\* if state == 'include': the include is read and processed by a
\* processor of its own, which returns its output or raises
StateInclude ==
    /\ pstate = "include" /\ perror = <<>> /\ returned = <<>>
    /\ \E tokstr \in {tokstr_at(template, it)} :
       \E token \in {token_of(tokstr)} :
           /\ it' = advance(template, it)
           /\ CASE token = "char" ->
                     /\ include' = include \o tokstr
                     /\ UNCHANGED <<pstate, output, expression_buf,
                                    statements, perror, returned>>
                [] token = "ri" ->
                     \/ \E e \in SnippetErrors \cup {"TemplateError"} :
                            raise_template_error(e)
                     \/ /\ output' = output \o "[" \o include \o "]"
                        /\ include' = ""
                        /\ pstate' = "verbatim"
                        /\ UNCHANGED <<expression_buf, statements, perror,
                                       returned>>
                [] OTHER -> unexpected
    /\ UNCHANGED template
    /\ UNCHANGED notTmpl

\* the texts of up to MaxChars characters
Templates ==
    UNION {[1..n -> Alphabet] : n \in 0..MaxChars}

\* self._process(template), state = 'verbatim'
InitTmpl ==
    /\ NoCreate
    /\ NoRun
    /\ NoTable
    /\ NoDeploy
    /\ NoTwin
    /\ NoPath
    /\ NoClient
    /\ NoNode
    /\ NoExpr
    /\ NoCall
    /\ NoBoot
    /\ template \in Templates
    /\ it = 1
    /\ pstate = "verbatim"
    /\ output = ""
    /\ expression_buf = ""
    /\ statements = ""
    /\ include = ""
    /\ perror = <<>>
    /\ returned = <<>>
    /\ NoInc
    /\ NoPkg
    /\ NoFin

NextTmpl ==
    \/ StateVerbatim
    \/ StateEval
    \/ StateExec
    \/ StateInclude

SpecTmpl == InitTmpl /\ [][NextTmpl]_vars

\* the delimiter that closes the block of a state
Closer(s) ==
    CASE s = "eval" -> "re" [] s = "exec" -> "rx" [] s = "include" -> "ri"
      [] OTHER -> "none"

\* C26: _process returns output only when the input ends in the verbatim
\* state; a closing delimiter outside its own block, an opening delimiter
\* inside a block and the end of input inside a block raise TemplateError;
\* the closing delimiter of a block, when its snippet or include raises
\* nothing, takes the processor back to verbatim.
C26_TemplateStateMachine ==
    [][LET token == token_of(tokstr_at(template, it))
       IN  /\ returned' # <<>> =>
                 /\ pstate = "verbatim" /\ token = "EOF"
                 /\ perror' = <<>>
           /\ (token \in {"rx", "re", "ri"} /\ token # Closer(pstate))
                 => perror' = <<"TemplateError">>
           /\ (pstate # "verbatim" /\ token \in {"lx", "le", "li", "EOF"})
                 => perror' = <<"TemplateError">>
           /\ (token = Closer(pstate) /\ perror' = <<>>)
                 => pstate' = "verbatim"
           /\ perror' = <<>> /\ returned' = <<>>
                 => pstate' \in {"verbatim", "eval", "exec", "include"}
      ]_vars

\* a text with an exec block closed and output returned after it
C26_Witness ==
    /\ template = <<"<", "!", "!", ">">>
    /\ returned = <<"">>
    /\ pstate = "verbatim"

\* ---------------------------------------------------------------------
\* ScriptIncludesFinder.search (workflow/comfies/sdeploy.py).
\* ---------------------------------------------------------------------

MaxLines == 3

\* what the include files on the search path hold, by the names they
\* include in turn; "m.h" and "n.h" are on no search path
IncludeFiles ==
    [name \in {"a.h", "b.h", "c.h"} |->
        CASE name = "a.h" -> <<"b.h">>
          [] name = "b.h" -> <<>>
          [] OTHER -> <<"m.h">>]

IncludeNames == DOMAIN IncludeFiles \cup {"m.h", "n.h"}

\* a line of a script: an include directive, by the name it includes,
\* or any other line
Lines == IncludeNames \cup {"other"}

\* PathFinder.find: the path of the file, <<>> when it raises
path_finder_find(name) == IF name \in DOMAIN IncludeFiles THEN <<"inc/" \o name>> ELSE <<>>

\* the name of the file at a path of the include directory
name_at(path) == CHOOSE name \in DOMAIN IncludeFiles : "inc/" \o name = path

SearchRaise(st, class, name, exp) ==
    [st EXCEPT !.error = <<[class |-> class, file |-> name, expected |-> exp]>>]

RECURSIVE search(_, _)
RECURSIVE search_lines(_, _, _, _)

\* the body of the loop over the lines of the file, for one line
line_step(st, line, exp) ==
    IF line = "other" THEN st
    ELSE IF path_finder_find(line) = <<>> /\ (exp = <<>> \/ line \in exp[1])
         THEN SearchRaise(st, "FileNotFoundError", line, exp)
         ELSE LET bound == IF path_finder_find(line) # <<>> THEN path_finder_find(line)
                           ELSE st.include_path
              IN  IF bound = <<>>
                  THEN SearchRaise(st, "UnboundLocalError", line, exp)
                  ELSE IF bound[1] \in st.found
                       THEN [st EXCEPT !.include_path = bound]
                       ELSE LET deeper == search(IncludeFiles[name_at(bound[1])], <<>>)
                            IN  [found |-> st.found \cup {bound[1]} \cup deeper.found,
                                 include_path |-> bound,
                                 error |-> deeper.error]

search_lines(st, lines, i, exp) ==
    IF i > Len(lines) \/ st.error # <<>> THEN st
    ELSE search_lines(line_step(st, lines[i], exp), lines, i + 1, exp)

\* search(srcpath, expected) on the lines of the file at srcpath
search(lines, exp) ==
    search_lines([found |-> {}, include_path |-> <<>>, error |-> <<>>],
                 lines, 1, exp)

\* one line of the script given to search
SearchLine ==
    /\ lpos \in 1..Len(srclines)
    /\ search_error = <<>>
    /\ \E st \in {line_step([found |-> sfound, include_path |-> include_path,
                             error |-> <<>>], srclines[lpos], expected)} :
           /\ sfound' = st.found
           /\ include_path' = st.include_path
           /\ search_error' = st.error
    /\ lpos' = lpos + 1
    /\ UNCHANGED <<srclines, expected, search_result>>
    /\ UNCHANGED notInc

\* return list(found)
SearchReturn ==
    /\ lpos = Len(srclines) + 1
    /\ search_error = <<>>
    /\ search_result = <<>>
    /\ search_result' = <<sfound>>
    /\ UNCHANGED <<srclines, expected, lpos, sfound, include_path, search_error>>
    /\ UNCHANGED notInc

Scripts == UNION {[1..n -> Lines] : n \in 0..MaxLines}

\* search(script_path, expected=self._filenames), or with no expected
InitInc ==
    /\ NoCreate
    /\ NoRun
    /\ NoTable
    /\ NoDeploy
    /\ NoTwin
    /\ NoPath
    /\ NoClient
    /\ NoNode
    /\ NoExpr
    /\ NoCall
    /\ NoBoot
    /\ NoTmpl
    /\ srclines \in Scripts
    /\ expected \in {<<>>, <<{}>>, <<{"m.h"}>>}
    /\ lpos = 1
    /\ sfound = {}
    /\ include_path = <<>>
    /\ search_error = <<>>
    /\ search_result = <<>>
    /\ NoPkg
    /\ NoFin

NextInc ==
    \/ SearchLine
    \/ SearchReturn

SpecInc == InitInc /\ [][NextInc]_vars

\* a line that includes a file on no search path, with expected given
\* and the file not on it
MissingUnlisted(line) ==
    /\ line \in IncludeNames
    /\ path_finder_find(line) = <<>>
    /\ expected # <<>>
    /\ line \notin expected[1]

\* C27: search ends with an exception only as FileNotFoundError for an
\* include that cannot be found, raised by a search whose expected is
\* None or lists the include; a line with a missing include that is not
\* on the list leaves found as it is and the search goes on to the next
\* line.
C27_MissingUnlistedIgnored ==
    [][/\ search_error' # <<>> =>
            /\ search_error'[1].class = "FileNotFoundError"
            /\ path_finder_find(search_error'[1].file) = <<>>
            /\ \/ search_error'[1].expected = <<>>
               \/ search_error'[1].file \in search_error'[1].expected[1]
       /\ (lpos \in 1..Len(srclines) /\ search_error = <<>>
             /\ MissingUnlisted(srclines[lpos]))
            => /\ sfound' = sfound
               /\ search_error' = <<>>
               /\ lpos' = lpos + 1
      ]_vars

\* ---------------------------------------------------------------------
\* PackageInstallers and its two callers (workflow/parts/packages.py,
\* workflow/builders/builder.py, workflow/parts/start.py).
\* ---------------------------------------------------------------------

MaxPackages == 3

supported_packages == {"scripts", "executables"}

\* packages=[...] in Builder.build
BuilderPackages == <<"scripts", "rapidpy", "basininflow", "geoglows_ecflow">>

\* packages=[...] in MakeFamily.__init__
MakeFamilyPackages == <<"scripts", "rapidpy", "geoglows_ecflow", "basininflow">>

PackageNames ==
    supported_packages \cup {BuilderPackages[i] : i \in DOMAIN BuilderPackages}

\* PackageInstallers.add_installer: the family with the installer added,
\* or the ValueError
add_installer(family, package_name) ==
    IF package_name \notin supported_packages
    THEN [family |-> family, raised |-> <<"ValueError">>]
    ELSE [family |-> Append(family, package_name), raised |-> <<>>]

\* for package_name in packages: self.add_installer(package_name)
AddInstaller ==
    /\ caller # ""
    /\ pkg_error = <<>>
    /\ Len(n_packages) < Len(packages)
    /\ \E r \in {add_installer(n_packages, packages[Len(n_packages) + 1])} :
           /\ n_packages' = r.family
           /\ pkg_error' = r.raised
    /\ UNCHANGED <<caller, packages, assembled>>
    /\ UNCHANGED notPkg

\* the constructor returned and the caller goes on with the family
PackagesBuilt ==
    /\ caller # ""
    /\ pkg_error = <<>>
    /\ Len(n_packages) = Len(packages)
    /\ ~assembled
    /\ assembled' = TRUE
    /\ UNCHANGED <<caller, packages, n_packages, pkg_error>>
    /\ UNCHANGED notPkg

\* PackageInstallers(packages=...) by Builder.build, by MakeFamily, or by
\* another caller with up to MaxPackages names
InitPkg ==
    /\ NoCreate
    /\ NoRun
    /\ NoTable
    /\ NoDeploy
    /\ NoTwin
    /\ NoPath
    /\ NoClient
    /\ NoNode
    /\ NoExpr
    /\ NoCall
    /\ NoBoot
    /\ NoTmpl
    /\ NoInc
    /\ caller \in {"Builder.build", "MakeFamily", "other"}
    /\ packages \in
         CASE caller = "Builder.build" -> {BuilderPackages}
           [] caller = "MakeFamily" -> {MakeFamilyPackages}
           [] OTHER -> UNION {[1..n -> PackageNames] : n \in 0..MaxPackages}
    /\ n_packages = <<>>
    /\ pkg_error = <<>>
    /\ assembled = FALSE
    /\ NoFin

NextPkg ==
    \/ AddInstaller
    \/ PackagesBuilt

SpecPkg == InitPkg /\ [][NextPkg]_vars

\* C29: every package name Builder.build and MakeFamily pass to
\* PackageInstallers is one of supported_packages, and the constructor
\* ends without a ValueError for both.
C29_CallersPassSupportedPackages ==
    caller \in {"Builder.build", "MakeFamily"} =>
        /\ \A i \in DOMAIN packages : packages[i] \in supported_packages
        /\ pkg_error = <<>>

\* ---------------------------------------------------------------------
\* Rendering the triggers and defusers of a suite (ooflow.py finish) for
\* the nodes Builder.build adds to a cycle or leaves out of it.
\* ---------------------------------------------------------------------

MaxAdds == 2

main_hh == <<"s1", "main">>

n_admin_toggles == <<"s1", "admin", "toggles">>

\* a node main_hh.add() takes in every cycle but "12": left out, it has
\* no parent and is the root of its own tree
LeftOutOf12(hh, name) ==
    IF hh # "12" THEN Append(main_hh, name) ELSE <<name>>

n_initialize(hh) == LeftOutOf12(hh, "initialize")

n_web(hh) == LeftOutOf12(hh, "web")

n_hr == Append(main_hh, "hres")

n_ens == Append(main_hh, "ens")

n_diss == Append(main_hh, "diss")

\* the nodes Builder.build makes for the cycle, in the suite or not
BuiltNodes(hh) ==
    {<<"s1">>, <<"s1", "admin">>, n_admin_toggles, main_hh, n_hr, n_ens,
     n_diss, Append(n_diss, "ip"), n_initialize(hh),
     Append(n_initialize(hh), "initialize"), n_web(hh),
     Append(n_web(hh), "prod")}

\* the nodes whose completion a trigger of the cycle waits for
Referenced(hh) ==
    {n_initialize(hh), Append(n_web(hh), "prod"), n_hr, n_ens,
     n_admin_toggles}

\* the nodes of the suite: those that descend from it
SuiteTree(hh) == {n \in BuiltNodes(hh) : root(n) = <<"s1">>}

\* the events of the toggles task, and one that no node owns
Events ==
    {Event(n_admin_toggles, "no_diss"), Event(n_admin_toggles, "no_webprod"),
     Event(NullNode, "no_ecfs")}

\* _Node_add_trigger for a Bool: a NullBool deletes the trigger, ooflow's
\* and ecFlow's, another expression is stored for rendering
AddTrigger(node, e) ==
    /\ nadds \in 0..(MaxAdds - 1)
    /\ node \in DOMAIN ooflow_trigger
    /\ ooflow_trigger' = [ooflow_trigger EXCEPT ![node] = e]
    /\ ecflow_trigger' = IF e.kind = "NullBool"
                         THEN [ecflow_trigger EXCEPT ![node] = <<>>]
                         ELSE ecflow_trigger
    /\ nadds' = nadds + 1
    /\ finished' = FALSE
    /\ UNCHANGED <<cycle, ooflow_defuser, ecflow_complete>>
    /\ UNCHANGED notFin

\* node.trigger &= other.complete
AndComplete(node, other) ==
    /\ node \in DOMAIN ooflow_trigger
    /\ AddTrigger(node, __and__(ooflow_trigger[node], Completed(other)))

\* node.trigger |= other.complete
OrComplete(node, other) ==
    /\ node \in DOMAIN ooflow_trigger
    /\ AddTrigger(node, __or__(ooflow_trigger[node], Completed(other)))

\* node.defuser = event: _Node_add_complete for a Bool
SetDefuser(node, event) ==
    /\ nadds \in 0..(MaxAdds - 1)
    /\ node \in DOMAIN ooflow_trigger
    /\ ooflow_defuser' = [ooflow_defuser EXCEPT ![node] = event]
    /\ nadds' = nadds + 1
    /\ finished' = FALSE
    /\ UNCHANGED <<cycle, ooflow_trigger, ecflow_trigger, ecflow_complete>>
    /\ UNCHANGED notFin

\* _render_triggers / _render_defusers for one node: the text takes the
\* place of the node's ecFlow expression unless it is empty
render(expressions, texts, node) ==
    LET text == Text(expressions[node], node)
    IN  IF text # <<>> THEN text ELSE texts[node]

\* suite.finish(): every node of the suite renders its trigger and its
\* defuser
Finish ==
    /\ nadds >= 0
    /\ ~finished
    /\ ecflow_trigger' =
          [node \in DOMAIN ooflow_trigger |->
              render(ooflow_trigger, ecflow_trigger, node)]
    /\ ecflow_complete' =
          [node \in DOMAIN ooflow_defuser |->
              render(ooflow_defuser, ecflow_complete, node)]
    /\ finished' = TRUE
    /\ UNCHANGED <<cycle, ooflow_trigger, ooflow_defuser, nadds>>
    /\ UNCHANGED notFin

\* Builder.build has made the nodes of one cycle, none with a trigger yet
InitFin ==
    /\ NoCreate
    /\ NoRun
    /\ NoTable
    /\ NoDeploy
    /\ NoTwin
    /\ NoPath
    /\ NoClient
    /\ NoNode
    /\ NoExpr
    /\ NoCall
    /\ NoBoot
    /\ NoTmpl
    /\ NoInc
    /\ NoPkg
    /\ cycle \in {"00", "12"}
    /\ ooflow_trigger = [node \in SuiteTree(cycle) |-> NullBool]
    /\ ooflow_defuser = [node \in SuiteTree(cycle) |-> NullBool]
    /\ ecflow_trigger = [node \in SuiteTree(cycle) |-> <<>>]
    /\ ecflow_complete = [node \in SuiteTree(cycle) |-> <<>>]
    /\ finished = FALSE
    /\ nadds = 0

NextFin ==
    \/ \E node \in {n_hr, n_ens}, other \in Referenced(cycle) : AndComplete(node, other)
    \/ \E other \in Referenced(cycle) : OrComplete(n_ens, other)
    \/ \E node \in {n_hr, Append(n_diss, "ip")}, event \in Events : SetDefuser(node, event)
    \/ Finish

SpecFin == InitFin /\ [][NextFin]_vars

\* the nodes the parts of a path lead to from cur within a set of nodes
RECURSIVE WalkIn(_, _, _)
WalkIn(nodes, cur, parts) ==
    IF parts = <<>> THEN {cur}
    ELSE IF Head(parts) = "." THEN WalkIn(nodes, cur, Tail(parts))
    ELSE IF Head(parts) = ".."
         THEN IF cur = <<>> THEN {} ELSE WalkIn(nodes, Parent(cur), Tail(parts))
    ELSE IF Append(cur, Head(parts)) \in nodes
         THEN WalkIn(nodes, Append(cur, Head(parts)), Tail(parts))
    ELSE {}

\* the node of the suite a path in an expression of node from names: an
\* absolute path is followed from the definition, a relative one from the
\* parent of from
NamedInSuite(text, from) ==
    IF text.abs THEN WalkIn(SuiteTree(cycle), <<>>, text.parts)
    ELSE WalkIn(SuiteTree(cycle), Parent(from), text.parts)

\* the paths in a rendered text
PathsOf(text) ==
    {text[k].path : k \in {i \in 1..Len(text) : "path" \in DOMAIN text[i]}}

====
